---- MODULE Spec2Model ----
(***************************************************************************)
(* rbh-find: the command-line expression parser (parse_expression), the    *)
(* action side effect (find / _find) and main, as a state machine.         *)
(*                                                                         *)
(* The command line is argv[0..argc-1] (1-based here: argv[k+1] is the C   *)
(* argv[k]).  argc is fixed from the start; the content of an argument is  *)
(* drawn when the program first classifies it (the parser is one pass,     *)
(* left to right, and never looks at an argument twice).                   *)
(*                                                                         *)
(* A filter is a record [op, p, kids, id]:                                 *)
(*   op   "null" (the NULL pointer), "cmp" (a comparison leaf built by a   *)
(*        predicate compiler), "and", "or", "not";                         *)
(*   p    for a leaf, the predicate argument it was compiled from;         *)
(*   kids the children (2 for and/or, 1 for not);                          *)
(*   id   > 0: the rank of the heap allocation that made the node;         *)
(*        0: NULL, or a node that lives on parse_expression's C stack      *)
(*        (left_filter, negated_left_filter).                              *)
(***************************************************************************)
EXTENDS Integers, Sequences, FiniteSets, TLC

VARIABLES argc, argv, backend_count, pc, i, token, stack, retval,
          did_something, sorts, calls, nalloc, filters, status,
          predicate, argument, now, usermask, revision,
          find_action, backend_index, fsentries, errno, count, total, acted,
          destroyed, action_file

vars == <<argc, argv, backend_count, pc, i, token, stack, retval,
          did_something, sorts, calls, nalloc, filters, status,
          predicate, argument, now, usermask, revision,
          find_action, backend_index, fsentries, errno, count, total, acted,
          destroyed, action_file>>

(* The state of one predicate compiler taken alone (xmin2filter,           *)
(* xtime2filter, mode2filter): the predicate, its argument as a sequence   *)
(* of characters, the value time(NULL) returns and the file mode creation  *)
(* mask of the process, and which of the revisions kept in the sources is  *)
(* built (of the permission parser, or of _find() when find() is taken     *)
(* alone).  The parser leaves them alone: its predicates are compared by   *)
(* name only.                                                              *)
compiler == <<predicate, argument, now, usermask, revision>>

(* The state of one find() taken alone: its action, the index of the       *)
(* backend _find() is draining, what rbh_mut_iter_next() has returned from *)
(* that backend's iterator so far, errno, the count of _find(), the count  *)
(* of find() and the entries of that backend the action was run on.  The   *)
(* parser and the predicate compilers leave them alone: the parser's       *)
(* find() is one step.  destroyed counts, for each backend, the calls of   *)
(* rbh_backend_destroy() on its handle; action_file is the file of a file  *)
(* action, with the name fopen() was given.                                *)
iteration ==
    <<find_action, backend_index, fsentries, errno, count, total, acted,
      destroyed, action_file>>

----------------------------------------------------------------------------
(* Bounds of the model *)

MaxBackends == 2
MaxArgs == 6
MaxSorts == 2

(* Exit statuses; Running until the process exits *)
EXIT_SUCCESS == "EXIT_SUCCESS"
EXIT_FAILURE == "EXIT_FAILURE"
EX_USAGE == "EX_USAGE"
Running == "running"

(* The argument strings the model draws from *)
PredArgs == {"a", "b"}
ActionNames == {"-print", "-quit"}
Fields == {"size", "name"}

str2command_line_token(string) ==
    CASE string = "-a" -> "CLT_AND"
      [] string = "-o" -> "CLT_OR"
      [] string = "!" -> "CLT_NOT"
      [] string = "(" -> "CLT_PARENTHESIS_OPEN"
      [] string = ")" -> "CLT_PARENTHESIS_CLOSE"
      [] string = "-sort" -> "CLT_SORT"
      [] string = "-rsort" -> "CLT_RSORT"
      [] string = "-name" -> "CLT_PREDICATE"
      [] string \in ActionNames -> "CLT_ACTION"
      [] OTHER -> "CLT_URI"

str2action(string) ==
    IF string = "-quit" THEN "ACT_QUIT" ELSE "ACT_PRINT"

----------------------------------------------------------------------------
(* Filters *)

NULL == [op |-> "null", p |-> "", kids |-> <<>>, id |-> 0]

(* rbh_filter_compare_*_new, as called by the predicate compilers *)
filter_compare_new(arg, id) ==
    [op |-> "cmp", p |-> arg, kids |-> <<>>, id |-> id]

filter_compose(op, left, right, id) ==
    [op |-> op, p |-> "", kids |-> <<left, right>>, id |-> id]

(* An And node that is not allocated: it lives in the frame of its maker *)
filter_and_on_stack(left, right, id) == filter_compose("and", left, right, 0)

filter_and(left, right, id) == filter_compose("and", left, right, id)

filter_or_as_and(left, right, id) == filter_compose("and", left, right, id)

filter_or(left, right, id) == filter_compose("or", left, right, id)

filter_not(filter, id) ==
    [op |-> "not", p |-> "", kids |-> <<filter>>, id |-> id]

(* The children of a new node left out of the arena *)
rbh_sstack_push_none(sstack, children) == sstack

(* rbh_sstack_push(filters, ...) in filter_compose() and filter_not(): the *)
(* children of the new node are recorded in the arena                      *)
rbh_sstack_push(sstack, children) == sstack \o children

(* The two stack-allocated filters of one loop iteration *)
left_filter(filter, _filter) ==
    [op |-> "and", p |-> "", kids |-> <<filter, _filter>>, id |-> 0]

negated_left_filter(filter, _filter) ==
    [op |-> "not", p |-> "", kids |-> <<left_filter(filter, _filter)>>,
     id |-> 0]

(* An entry is the set of predicate arguments whose comparison it satisfies *)
Entries == SUBSET PredArgs

RECURSIVE Matches(_, _)
Matches(f, e) ==
    CASE f.op = "null" -> TRUE
      [] f.op = "cmp" -> f.p \in e
      [] f.op = "and" -> Matches(f.kids[1], e) /\ Matches(f.kids[2], e)
      [] f.op = "or" -> Matches(f.kids[1], e) \/ Matches(f.kids[2], e)
      [] f.op = "not" -> ~Matches(f.kids[1], e)

----------------------------------------------------------------------------
(* Helpers on the parser state *)

Top == stack[Len(stack)]

Pop == SubSeq(stack, 1, Len(stack) - 1)

SetTop(fr) == [stack EXCEPT ![Len(stack)] = fr]

Frame(filter, negate, _filter, via) ==
    [filter |-> filter, negate |-> negate, ctx |-> _filter, via |-> via]

Fatal(code) ==
    /\ pc' = "fatal"
    /\ status' = code

BackendCalls_unsorted(action, filter, by_main) ==
    [b \in 1..backend_count |->
        [backend |-> b, action |-> action, filter |-> filter, sorts |-> <<>>,
         drained |-> TRUE, by_main |-> by_main]]

(* One call of rbh_backend_filter per backend, in index order, each result  *)
(* drained until rbh_mut_iter_next() returns NULL.  by_main tells the call  *)
(* of find() in main() from the calls in parse_expression().                *)
BackendCalls(action, filter, by_main) ==
    [b \in 1..backend_count |->
        [backend |-> b, action |-> action, filter |-> filter, sorts |-> sorts,
         drained |-> TRUE, by_main |-> by_main]]

(* The calls of a find() in which _find() ran ACT_QUIT on an entry of      *)
(* backend hit: exit(0) leaves that result undrained and the later         *)
(* backends unvisited.                                                     *)
QuitCalls(filter, hit) ==
    [b \in 1..hit |->
        [backend |-> b, action |-> "ACT_QUIT", filter |-> filter,
         sorts |-> sorts, drained |-> (b < hit), by_main |-> FALSE]]

(* find(): did_something is set, then _find() runs on every backend *)
find(action, filter, by_main) ==
    /\ did_something' = TRUE
    /\ calls' = calls \o BackendCalls(action, filter, by_main)

----------------------------------------------------------------------------
(* ctx->action_file before any fopen(): no name read, no file open *)
NoFile == [filename |-> "", file |-> "NULL"]

(* No find() is taken alone *)
NoIteration ==
    /\ find_action = "ACT_PRINT"
    /\ backend_index = 0
    /\ fsentries = <<>>
    /\ errno = "0"
    /\ count = 0
    /\ total = 0
    /\ acted = <<>>
    /\ destroyed = <<>>
    /\ action_file = NoFile

Init ==
    /\ backend_count \in 0..MaxBackends
    /\ argc \in backend_count..(backend_count + MaxArgs)
    /\ argv = [k \in 1..backend_count |-> "uri"]
    /\ pc = "main"
    /\ i = 0
    /\ token = "CLT_URI"
    /\ stack = <<>>
    /\ retval = NULL
    /\ did_something = FALSE
    /\ sorts = <<>>
    /\ calls = <<>>
    /\ nalloc = 0
    /\ filters = <<>>
    /\ status = Running
    /\ predicate = "-name"
    /\ argument = <<>>
    /\ now = 0
    /\ usermask = 0
    /\ revision = "umask"
    /\ NoIteration

(* main(): the URI scan has stopped at index = backend_count *)
MainStart ==
    /\ pc = "main"
    /\ IF backend_count = 0
       THEN /\ Fatal(EX_USAGE)
            /\ UNCHANGED <<i, stack>>
       ELSE /\ i' = backend_count
            /\ stack' = <<Frame(NULL, FALSE, NULL, "main")>>
            /\ pc' = "loop"
            /\ UNCHANGED status
    /\ UNCHANGED <<compiler, iteration,
                   argc, argv, backend_count, token, retval, did_something,
                   sorts, calls, nalloc, filters>>

----------------------------------------------------------------------------
(* parse_expression(): one action per case of the switch.  Every action    *)
(* below is one iteration of the for loop of the innermost active call     *)
(* (the top frame), including the loop's i++.                              *)

AtToken == pc = "loop" /\ i < argc

OperatorAllowed_after_any(previous_token) == previous_token # "CLT_URI"

(* The binary operators' check of previous_token *)
OperatorAllowed(previous_token) ==
    previous_token \in {"CLT_ACTION", "CLT_PREDICATE", "CLT_PARENTHESIS_CLOSE"}

ToggleNegate_set(negate) == TRUE

(* negate = !negate *)
ToggleNegate(negate) == ~negate

(* if (negate) tmp = filter_not(tmp) *)
ApplyNegate(tmp, negate, id) ==
    IF negate THEN filter_not(tmp, id) ELSE tmp

ActionFilter_no_context(filter, _filter) == left_filter(filter, NULL)

(* The filter an action token hands to find() *)
ActionFilter(filter, _filter) == left_filter(filter, _filter)

OrContext_not_left(filter, _filter) ==
    [op |-> "not", p |-> "", kids |-> <<filter>>, id |-> 0]

(* The context handed to the parse of the right-hand side of -o *)
OrContext(filter, _filter) == negated_left_filter(filter, _filter)

(* The context handed to the parse of a parenthesised group *)
ParenContext(filter, _filter) == left_filter(filter, _filter)

EmptyParentheses_never(previous_token) == FALSE

(* if (previous_token == CLT_PARENTHESIS_OPEN) *)
EmptyParentheses(previous_token) == previous_token = "CLT_PARENTHESIS_OPEN"

MissingClose_never(idx, tok) == FALSE

(* if (i >= argc || token != CLT_PARENTHESIS_CLOSE) *)
MissingClose(idx, tok) == idx >= argc \/ tok # "CLT_PARENTHESIS_CLOSE"

TooManyClose_never(index) == FALSE

(* main(): if (index != argc) *)
TooManyClose(index) == index # argc

DefaultWanted_always(did) == TRUE

(* main(): if (!did_something) *)
DefaultWanted(did) == ~did

(* case CLT_URI *)
TokUri ==
    /\ AtToken
    /\ i > backend_count
    /\ argv' = Append(argv, "uri")
    /\ token' = str2command_line_token("uri")
    /\ Fatal(EX_USAGE)
    /\ UNCHANGED <<compiler, iteration,
                   argc, backend_count, i, stack, retval, did_something,
                   sorts, calls, nalloc, filters>>

(* case CLT_AND *)
TokAnd ==
    /\ AtToken
    /\ argv' = Append(argv, "-a")
    /\ token' = str2command_line_token("-a")
    /\ IF OperatorAllowed(token)
       THEN /\ i' = i + 1
            /\ UNCHANGED <<pc, status>>
       ELSE /\ Fatal(EX_USAGE)
            /\ UNCHANGED i
    /\ UNCHANGED <<compiler, iteration,
                   argc, backend_count, stack, retval, did_something,
                   sorts, calls, nalloc, filters>>

(* case CLT_OR: the -o token is consumed and the right-hand side is parsed *)
(* by a recursive call whose _filter is negated_left_filter                *)
TokOr ==
    /\ AtToken
    /\ argv' = Append(argv, "-o")
    /\ token' = str2command_line_token("-o")
    /\ IF OperatorAllowed(token)
       THEN /\ i' = i + 1
            /\ stack' = Append(stack,
                   Frame(NULL, FALSE, OrContext(Top.filter, Top.ctx), "or"))
            /\ UNCHANGED <<pc, status>>
       ELSE /\ Fatal(EX_USAGE)
            /\ UNCHANGED <<i, stack>>
    /\ UNCHANGED <<compiler, iteration,
                   argc, backend_count, retval, did_something,
                   sorts, calls, nalloc, filters>>

(* case CLT_NOT *)
TokNot ==
    /\ AtToken
    /\ argv' = Append(argv, "!")
    /\ token' = str2command_line_token("!")
    /\ stack' = SetTop([Top EXCEPT !.negate = ToggleNegate(Top.negate)])
    /\ i' = i + 1
    /\ UNCHANGED <<compiler, iteration,
                   argc, backend_count, pc, retval, did_something,
                   sorts, calls, nalloc, filters, status>>

(* case CLT_PARENTHESIS_OPEN, up to the recursive call *)
TokParenOpen ==
    /\ AtToken
    /\ argv' = Append(argv, "(")
    /\ token' = str2command_line_token("(")
    /\ i' = i + 1
    /\ stack' = Append(stack,
           Frame(NULL, FALSE, ParenContext(Top.filter, Top.ctx), "paren"))
    /\ UNCHANGED <<compiler, iteration,
                   argc, backend_count, pc, retval, did_something,
                   sorts, calls, nalloc, filters, status>>

(* case CLT_PARENTHESIS_CLOSE: *arg_idx = i; return filter *)
TokParenClose ==
    /\ AtToken
    /\ argv' = Append(argv, ")")
    /\ token' = str2command_line_token(")")
    /\ IF EmptyParentheses(token)
       THEN /\ Fatal(EXIT_FAILURE)
            /\ UNCHANGED <<stack, retval>>
       ELSE /\ retval' = Top.filter
            /\ pc' = "ret_" \o Top.via
            /\ stack' = Pop
            /\ UNCHANGED status
    /\ UNCHANGED <<compiler, iteration,
                   argc, backend_count, i, did_something,
                   sorts, calls, nalloc, filters>>

(* case CLT_PREDICATE: parse_predicate(), negation, filter_and *)
TokPredicate ==
    /\ AtToken
    /\ token' = str2command_line_token("-name")
    /\ IF i + 1 >= argc
       THEN /\ argv' = Append(argv, "-name")
            /\ Fatal(EX_USAGE)
            /\ UNCHANGED <<i, stack, nalloc, filters>>
       ELSE \E arg \in PredArgs :
            LET leaf == filter_compare_new(arg, nalloc + 1)
                n == IF Top.negate THEN nalloc + 2 ELSE nalloc + 1
                tmp == ApplyNegate(leaf, Top.negate, n)
            IN  /\ argv' = argv \o <<"-name", arg>>
                /\ stack' = SetTop([Top EXCEPT
                       !.filter = filter_and(Top.filter, tmp, n + 1),
                       !.negate = FALSE])
                /\ nalloc' = n + 1
                /\ filters' = rbh_sstack_push(
                       IF Top.negate THEN rbh_sstack_push(filters, <<leaf>>)
                       ELSE filters,
                       <<Top.filter, tmp>>)
                /\ i' = i + 2
                /\ UNCHANGED <<pc, status>>
    /\ UNCHANGED <<compiler, iteration,
                   argc, backend_count, retval, did_something, sorts, calls>>

sort_options_append_front(_sorts, field, ascending) ==
    <<[field |-> field, ascending |-> ascending]>> \o _sorts

(* sort_options_append(sorts, count, field, ascending): the new entry goes *)
(* to index count, after the entries already there                         *)
sort_options_append(_sorts, field, ascending) ==
    Append(_sorts, [field |-> field, ascending |-> ascending])

(* case CLT_RSORT / CLT_SORT: ascending is a local of the loop body, true  *)
(* at every iteration until CLT_RSORT clears it                            *)
TokSort ==
    /\ AtToken
    /\ Len(sorts) < MaxSorts
    /\ \E s \in {"-sort", "-rsort"} :
        /\ token' = str2command_line_token(s)
        /\ IF i + 1 >= argc
           THEN /\ argv' = Append(argv, s)
                /\ Fatal(EX_USAGE)
                /\ UNCHANGED <<i, sorts>>
           ELSE \E field \in Fields :
                /\ argv' = argv \o <<s, field>>
                /\ sorts' = sort_options_append(sorts, field, s # "-rsort")
                /\ i' = i + 2
                /\ UNCHANGED <<pc, status>>
    /\ UNCHANGED <<compiler, iteration,
                   argc, backend_count, stack, retval, did_something,
                   calls, nalloc, filters>>

(* case CLT_ACTION: find(str2action(argv[i]), &left_filter).  _find() calls *)
(* exit(0) on the first entry an ACT_QUIT is run on: hit is the backend     *)
(* that returned it (0: no backend returned an entry).  A backend only      *)
(* returns entries that match the filter.                                   *)
TokAction ==
    /\ AtToken
    /\ \E s \in ActionNames :
        LET filter == ActionFilter(Top.filter, Top.ctx) IN
        /\ argv' = Append(argv, s)
        /\ token' = str2command_line_token(s)
        /\ \E hit \in 0..backend_count :
            /\ hit > 0 => /\ str2action(s) = "ACT_QUIT"
                          /\ \E e \in Entries : Matches(filter, e)
            /\ IF hit > 0
               THEN /\ did_something' = TRUE
                    /\ calls' = calls \o QuitCalls(filter, hit)
                    /\ pc' = "exit"
                    /\ status' = EXIT_SUCCESS
                    /\ UNCHANGED i
               ELSE /\ find(str2action(s), filter, FALSE)
                    /\ i' = i + 1
                    /\ UNCHANGED <<pc, status>>
    /\ UNCHANGED <<compiler, iteration,
                   argc, backend_count, stack, retval, sorts, nalloc, filters>>

(* The for loop ends: *arg_idx = i; return filter *)
EndOfArgs ==
    /\ pc = "loop"
    /\ i >= argc
    /\ retval' = Top.filter
    /\ pc' = "ret_" \o Top.via
    /\ stack' = Pop
    /\ UNCHANGED <<compiler, iteration,
                   argc, argv, backend_count, i, token, did_something,
                   sorts, calls, nalloc, filters, status>>

(* case CLT_OR, after the recursive call: filter_or, *arg_idx = i, return *)
OrReturn ==
    /\ pc = "ret_or"
    /\ retval' = filter_or(Top.filter, retval, nalloc + 1)
    /\ nalloc' = nalloc + 1
    /\ filters' = rbh_sstack_push(filters, <<Top.filter, retval>>)
    /\ pc' = "ret_" \o Top.via
    /\ stack' = Pop
    /\ UNCHANGED <<compiler, iteration,
                   argc, argv, backend_count, i, token, did_something,
                   sorts, calls, status>>

(* case CLT_PARENTHESIS_OPEN, after the recursive call *)
ParenReturn ==
    /\ pc = "ret_paren"
    /\ IF MissingClose(i, token)
       THEN /\ Fatal(EX_USAGE)
            /\ UNCHANGED <<i, stack, nalloc, filters>>
       ELSE LET n == IF Top.negate THEN nalloc + 1 ELSE nalloc
                tmp == ApplyNegate(retval, Top.negate, n)
            IN  /\ stack' = SetTop([Top EXCEPT
                       !.filter = filter_and(Top.filter, tmp, n + 1),
                       !.negate = FALSE])
                /\ nalloc' = n + 1
                /\ filters' = rbh_sstack_push(
                       IF Top.negate THEN rbh_sstack_push(filters, <<retval>>)
                       ELSE filters,
                       <<Top.filter, tmp>>)
                /\ i' = i + 1
                /\ pc' = "loop"
                /\ UNCHANGED status
    /\ UNCHANGED <<compiler, iteration,
                   argc, argv, backend_count, token, retval, did_something,
                   sorts, calls>>

(* main(), after parse_expression() returned *)
MainReturn ==
    /\ pc = "ret_main"
    /\ IF TooManyClose(i)
       THEN /\ Fatal(EX_USAGE)
            /\ UNCHANGED <<did_something, calls>>
       ELSE /\ IF DefaultWanted(did_something)
               THEN find("ACT_PRINT", retval, TRUE)
               ELSE UNCHANGED <<did_something, calls>>
            /\ pc' = "done"
            /\ status' = EXIT_SUCCESS
    /\ UNCHANGED <<compiler, iteration,
                   argc, argv, backend_count, i, token, stack, retval,
                   sorts, nalloc, filters>>

Next ==
    \/ MainStart
    \/ TokUri
    \/ TokAnd
    \/ TokOr
    \/ TokNot
    \/ TokParenOpen
    \/ TokParenClose
    \/ TokPredicate
    \/ TokSort
    \/ TokAction
    \/ EndOfArgs
    \/ OrReturn
    \/ ParenReturn
    \/ MainReturn

Spec == Init /\ [][Next]_vars

----------------------------------------------------------------------------
(* What the claims are stated with *)

(* The expression: the arguments after the URIs, as far as classified *)
Expr == SubSeq(argv, backend_count + 1, Len(argv))

Terminated == pc \in {"done", "exit", "fatal"}

(* The reference reading of an expression T for an entry e, by the grammar *)
(*   expr := conj [ -o expr ]      conj := term { [-a] term }              *)
(*   term := { ! } ( -name ARG | "(" expr ")" )                            *)
(* Each operator returns [ok, pos, val]: whether a phrase was read from    *)
(* position k, the position after it, and its truth value for e.           *)
Bad == [ok |-> FALSE, pos |-> 0, val |-> FALSE]

Read(pos, val) == [ok |-> TRUE, pos |-> pos, val |-> val]

RECURSIVE RefExpr(_, _, _), RefConjRest(_, _, _, _), RefTerm(_, _, _)

RefTerm(T, k, e) ==
    IF k > Len(T) THEN Bad
    ELSE IF T[k] = "!"
    THEN LET r == RefTerm(T, k + 1, e)
         IN  IF r.ok THEN Read(r.pos, ~r.val) ELSE Bad
    ELSE IF T[k] = "-name"
    THEN IF k + 1 > Len(T) THEN Bad ELSE Read(k + 2, T[k + 1] \in e)
    ELSE IF T[k] = "("
    THEN LET r == RefExpr(T, k + 1, e)
         IN  IF r.ok /\ r.pos <= Len(T) /\ T[r.pos] = ")"
             THEN Read(r.pos + 1, r.val)
             ELSE Bad
    ELSE Bad

RefConjRest(T, k, e, acc) ==
    IF k > Len(T) \/ T[k] \in {"-o", ")"} THEN Read(k, acc)
    ELSE LET r == RefTerm(T, IF T[k] = "-a" THEN k + 1 ELSE k, e)
         IN  IF r.ok THEN RefConjRest(T, r.pos, e, acc /\ r.val) ELSE Bad

RefExpr(T, k, e) ==
    LET t == RefTerm(T, k, e)
        c == IF t.ok THEN RefConjRest(T, t.pos, e, t.val) ELSE Bad
    IN  IF c.ok /\ c.pos <= Len(T) /\ T[c.pos] = "-o"
        THEN LET r == RefExpr(T, c.pos + 1, e)
             IN  IF r.ok THEN Read(r.pos, c.val \/ r.val) ELSE Bad
        ELSE c

WellFormed(T) ==
    LET r == RefExpr(T, 1, {}) IN r.ok /\ r.pos = Len(T) + 1

ActionExecuted == pc = "loop" /\ calls' # calls

(* The filter of the backend calls it made *)
Handed == calls'[Len(calls')].filter

(* C2: an action to the right of -o operators (frames entered through -o   *)
(* that are still active) is handed a filter that matches no entry         *)
(* matching the left operand of any of them, the running filter of the     *)
(* level that read the -o.                                                 *)
C2_RightSideExcludesLeft ==
    [][ActionExecuted =>
        \A k \in 2..Len(stack) :
            stack[k].via = "or" =>
                \A e \in Entries :
                    Matches(stack[k - 1].filter, e) => ~Matches(Handed, e)]_vars

(* C3: an action inside a parenthesised group (a frame entered through "(" *)
(* that is still active) is handed a filter that only matches entries      *)
(* matching the running filter accumulated before the "(".                 *)
C3_GroupKeepsOuterContext ==
    [][ActionExecuted =>
        \A k \in 2..Len(stack) :
            stack[k].via = "paren" =>
                \A e \in Entries :
                    Matches(Handed, e) => Matches(stack[k - 1].filter, e)]_vars

(* No node of f lives on the C stack *)
RECURSIVE OnHeap(_)
OnHeap(f) ==
    \/ f.op = "null"
    \/ /\ f.id > 0
       /\ \A k \in 1..Len(f.kids) : OnHeap(f.kids[k])

(* C4: reading -o at a level with running filter L and context C starts    *)
(* the parse of the right-hand side with the context Not(And(L, C)); when  *)
(* that parse has returned R (which holds no context node), the level      *)
(* returns Or(L, R) at once: it reads no token and changes no index.       *)
C4_OrRewrite ==
    [][/\ (pc = "loop" /\ pc' = "loop" /\ token' = "CLT_OR") =>
            /\ Len(stack') = Len(stack) + 1
            /\ stack'[Len(stack')].ctx.op = "not"
            /\ Len(stack'[Len(stack')].ctx.kids) = 1
            /\ stack'[Len(stack')].ctx.kids[1].op = "and"
            /\ stack'[Len(stack')].ctx.kids[1].kids = <<Top.filter, Top.ctx>>
            /\ stack'[Len(stack')].filter = NULL
       /\ pc = "ret_or" =>
            /\ OnHeap(retval)
            /\ retval'.op = "or"
            /\ retval'.kids = <<Top.filter, retval>>
            /\ stack' = Pop
            /\ pc' = "ret_" \o Top.via
            /\ argv' = argv
            /\ i' = i
            /\ token' = token]_vars

C4_Witness ==
    /\ pc = "ret_paren"
    /\ retval.op = "or"
    /\ retval.kids[1].op = "and"
    /\ retval.kids[2].op = "and"

(* The number of -not tokens of the current level that precede position   *)
(* k + 1 of T with no predicate or group in between: the scan goes back    *)
(* over actions, -and and sort directives, and stops at a predicate's      *)
(* argument, a parenthesis, a -o or the first expression token.            *)
RECURSIVE NotsBack(_, _)
NotsBack(T, k) ==
    IF k <= backend_count THEN 0
    ELSE IF T[k] = "!" THEN 1 + NotsBack(T, k - 1)
    ELSE IF T[k] \in ActionNames \cup {"-a"} THEN NotsBack(T, k - 1)
    ELSE IF T[k] \in Fields THEN NotsBack(T, k - 2)
    ELSE 0

(* The position of the "(" that the ")" at the end of T closes *)
RECURSIVE OpenOf(_, _, _)
OpenOf(T, k, depth) ==
    IF k < 1 THEN 0
    ELSE IF T[k] = ")" THEN OpenOf(T, k - 1, depth + 1)
    ELSE IF T[k] = "("
    THEN IF depth = 1 THEN k ELSE OpenOf(T, k - 1, depth - 1)
    ELSE OpenOf(T, k - 1, depth)

Odd(n) == n % 2 = 1

(* C5: the term AND-ed into the running filter by a predicate, or by a     *)
(* group when its ")" has been read, is Not(term) iff an odd number of     *)
(* -not tokens came at that level since the previous predicate or group;   *)
(* the pending negation is then cleared.  -not -not X compiles to the      *)
(* filter of X.                                                            *)
C5_NegationParity ==
    /\ [](\A x \in PredArgs :
            (pc = "done" /\ Expr = <<"!", "!", "-name", x>>) =>
                retval = filter_and(NULL, filter_compare_new(x, 1), 2))
    /\ [][/\ (pc = "loop" /\ pc' = "loop" /\ token' = "CLT_PREDICATE") =>
               LET term == Top'.filter.kids[2]
                   wrapped == term.op = "not"
                   leaf == IF wrapped THEN term.kids[1] ELSE term
               IN  /\ wrapped <=> Odd(NotsBack(argv, Len(argv)))
                   /\ leaf.op = "cmp" /\ leaf.p = argv'[Len(argv')]
                   /\ Top'.filter.op = "and"
                   /\ Top'.filter.kids[1] = Top.filter
                   /\ ~Top'.negate
          /\ (pc = "ret_paren" /\ pc' = "loop") =>
               LET term == Top'.filter.kids[2]
                   wrapped == term.op = "not"
                   group == IF wrapped THEN term.kids[1] ELSE term
                   open == OpenOf(argv, Len(argv), 0)
               IN  /\ wrapped <=> Odd(NotsBack(argv, open - 1))
                   /\ group = retval
                   /\ Top'.filter.op = "and"
                   /\ Top'.filter.kids[1] = Top.filter
                   /\ ~Top'.negate]_vars

C5_Witness ==
    /\ pc = "loop"
    /\ token = "CLT_PREDICATE"
    /\ Len(argv) >= backend_count + 5
    /\ NotsBack(argv, Len(argv) - 2) = 3
    /\ Top.filter.kids[2].op = "not"
    /\ Top.filter.kids[2].kids[1].op = "cmp"

(* Every ")" of T closes a "(" read before it, every "(" is closed, and no *)
(* "(" is directly followed by ")"                                         *)
RECURSIVE ParenScan(_, _, _)
ParenScan(T, k, depth) ==
    IF k > Len(T) THEN depth = 0
    ELSE IF T[k] = "("
    THEN /\ ~(k < Len(T) /\ T[k + 1] = ")")
         /\ ParenScan(T, k + 1, depth + 1)
    ELSE IF T[k] = ")"
    THEN depth > 0 /\ ParenScan(T, k + 1, depth - 1)
    ELSE ParenScan(T, k + 1, depth)

ParensMatched(T) == ParenScan(T, 1, 0)

DefaultCalls == SelectSeq(calls, LAMBDA c : c.by_main)

(* C6 as stated: a command line, read to its end, with an unmatched "(",   *)
(* an unmatched ")" or an empty "( )" never ends the process normally.     *)
C6_BadParenthesesRejected ==
    (pc \in {"done", "exit"} /\ Len(argv) = argc) => ParensMatched(Expr)

(* C6, amended: a process that has ended on a command line with an         *)
(* unmatched "(", an unmatched ")" or an empty "( )" has ended with a      *)
(* fatal error, or else by the exit(0) of a -quit that was run on an       *)
(* entry before the parenthesis was reached; the default action was not    *)
(* run in either case.                                                     *)
C6_BadParenthesesRejectedUnlessQuit ==
    (Terminated /\ ~ParensMatched(Expr)) =>
        /\ DefaultCalls = <<>>
        /\ \/ pc = "fatal" /\ status \in {EX_USAGE, EXIT_FAILURE}
           \/ /\ pc = "exit"
              /\ calls[Len(calls)].action = "ACT_QUIT"
              /\ ~calls[Len(calls)].drained

(* an unclosed "(" on the right of a -o, inside a group, at the end *)
C6_Witness ==
    /\ pc = "fatal"
    /\ Len(argv) = argc
    /\ ~ParensMatched(Expr)
    /\ \E k \in 2..Len(Expr) - 1 :
        /\ Expr[1] = "("
        /\ Expr[k] = "-o"
        /\ Expr[k + 1] = "("
        /\ \A j \in 1..Len(Expr) : Expr[j] # ")"

(* The kind of the last token of the classified arguments T (a trailing    *)
(* argument belongs to the predicate or sort directive before it)          *)
LastKind(T) ==
    IF Len(T) <= backend_count THEN "none"
    ELSE IF T[Len(T)] \in PredArgs THEN "CLT_PREDICATE"
    ELSE IF T[Len(T)] \in Fields THEN str2command_line_token(T[Len(T) - 1])
    ELSE str2command_line_token(T[Len(T)])

(* C7: a -and or -or is accepted only if the token classified just before  *)
(* it, at whatever nesting level, is a predicate, an action or a ")";      *)
(* as first token of the expression or right after -and, -or, "(" or -not  *)
(* it is a fatal usage error, and nothing is parsed after a fatal error.   *)
C7_BinaryOperatorPlacement ==
    [][/\ (pc = "loop" /\ argv' # argv /\ token' \in {"CLT_AND", "CLT_OR"}) =>
            /\ pc' \in {"loop", "fatal"}
            /\ pc' = "loop" <=>
                   LastKind(argv) \in
                       {"CLT_PREDICATE", "CLT_ACTION", "CLT_PARENTHESIS_CLOSE"}
            /\ LastKind(argv) \in
                   {"none", "CLT_AND", "CLT_OR", "CLT_PARENTHESIS_OPEN",
                    "CLT_NOT"} =>
                   pc' = "fatal" /\ status' = EX_USAGE
       /\ pc = "fatal" => FALSE]_vars

(* a -o right after the "(" that follows a -o: two levels below main *)
C7_Witness ==
    /\ pc = "fatal"
    /\ status = EX_USAGE
    /\ Len(stack) = 3
    /\ Len(Expr) >= 2
    /\ Expr[Len(Expr)] = "-o"
    /\ Expr[Len(Expr) - 1] = "("

(* Position k of T, a -o, is followed at its level by a predicate, an      *)
(* action or a group before the level ends (at a ")" or the end of T)      *)
RECURSIVE TermFollows(_, _)
TermFollows(T, k) ==
    IF k + 1 > Len(T) THEN FALSE
    ELSE IF T[k + 1] \in {"-name", "("} \cup ActionNames THEN TRUE
    ELSE IF T[k + 1] = "!" THEN TermFollows(T, k + 1)
    ELSE IF T[k + 1] \in {"-sort", "-rsort"} THEN TermFollows(T, k + 2)
    ELSE FALSE

(* C8: every -o of an accepted expression has a term after it at its level *)
C8_OrHasRightOperand ==
    pc = "done" =>
        \A k \in 1..Len(Expr) : Expr[k] = "-o" => TermFollows(Expr, k)

(* The sort entries of the directives of T, in order *)
RECURSIVE SortsOf(_)
SortsOf(T) ==
    IF Len(T) < 2 THEN <<>>
    ELSE IF T[1] \in {"-sort", "-rsort"}
    THEN <<[field |-> T[2], ascending |-> (T[1] = "-sort")]>>
             \o SortsOf(SubSeq(T, 3, Len(T)))
    ELSE SortsOf(Tail(T))

HasAction(T) == \E k \in 1..Len(T) : T[k] \in ActionNames

(* C9: the default print runs only once the whole expression is parsed,    *)
(* and then iff the expression has no action token: one print call per     *)
(* backend with the filter the top-level parse returned and all the sort   *)
(* entries of the command line.                                            *)
C9_DefaultAction ==
    /\ pc # "done" => DefaultCalls = <<>>
    /\ HasAction(Expr) => DefaultCalls = <<>>
    /\ (pc = "done" /\ ~HasAction(Expr)) =>
        /\ Len(calls) = backend_count
        /\ \A b \in 1..backend_count :
            calls[b] = [backend |-> b, action |-> "ACT_PRINT",
                        filter |-> retval, sorts |-> SortsOf(Expr),
                        drained |-> TRUE, by_main |-> TRUE]

C9_Witness ==
    /\ pc = "done"
    /\ backend_count = 2
    /\ Len(DefaultCalls) = 2
    /\ Len(calls[1].sorts) = 1
    /\ retval.op = "and"

(* An action token is being handled by the loop *)
ActionToken == pc = "loop" /\ argv' # argv /\ token' = "CLT_ACTION"

(* What the token's find() is to do: one drained call per backend, in      *)
(* backend order, with the filter And(running filter, context); then the   *)
(* parse goes on at the next token, the level's filter and pending         *)
(* negation unchanged.                                                     *)
ActionRuns ==
    /\ Len(calls') = Len(calls) + backend_count
    /\ SubSeq(calls', 1, Len(calls)) = calls
    /\ \A b \in 1..backend_count :
        LET c == calls'[Len(calls) + b]
        IN  /\ c.backend = b
            /\ c.action = str2action(argv'[Len(argv')])
            /\ c.filter.op = "and"
            /\ c.filter.kids = <<Top.filter, Top.ctx>>
            /\ c.sorts = sorts
            /\ c.drained
            /\ ~c.by_main
    /\ Len(argv') = Len(argv) + 1
    /\ stack' = stack
    /\ i' = i + 1
    /\ pc' = "loop"

(* The action names of the action tokens of T, in order, each once per     *)
(* backend                                                                 *)
RECURSIVE ActionsOf(_)
ActionsOf(T) ==
    IF T = <<>> THEN <<>>
    ELSE IF T[1] \in ActionNames
    THEN [b \in 1..backend_count |-> str2action(T[1])] \o ActionsOf(Tail(T))
    ELSE ActionsOf(Tail(T))

C11_SortListIsDirectiveSequence ==
    /\ [](sorts = SortsOf(Expr))
    /\ [](Expr = <<"-sort", "size", "-rsort", "name">> =>
            sorts = <<[field |-> "size", ascending |-> TRUE],
                      [field |-> "name", ascending |-> FALSE]>>)
    /\ [][\/ sorts' = sorts
          \/ /\ token' \in {"CLT_SORT", "CLT_RSORT"}
             /\ Len(sorts') = Len(sorts) + 1
             /\ SubSeq(sorts', 1, Len(sorts)) = sorts
             /\ sorts'[Len(sorts')].field = argv'[Len(argv')]
             /\ sorts'[Len(sorts')].ascending = (token' # "CLT_RSORT")]_vars

(* the same field twice, first descending then ascending, with a predicate *)
(* in between                                                              *)
C11_Witness ==
    /\ pc = "done"
    /\ Len(Expr) = 6
    /\ Expr[1] = "-rsort"
    /\ Expr[3] = "-name"
    /\ Expr[5] = "-sort"
    /\ Expr[2] = Expr[6]
    /\ sorts = <<[field |-> Expr[2], ascending |-> FALSE],
                 [field |-> Expr[2], ascending |-> TRUE]>>

----------------------------------------------------------------------------
(* The time predicates, compiled on their own:                             *)
(* parse_predicate -> xmin2filter / xtime2filter -> timedelta2filter ->    *)
(* str2seconds -> strtoul.  A string is a sequence of characters.          *)

(* The width of unsigned long (and of time_t and uint64_t) in the model *)
ULongBits == 20
(* The longest run of digits, and of sign or space characters before it *)
MaxDigits == 4
MaxSigns == 2

ULONG_MAX == 2 ^ ULongBits - 1

(* Conversion to an unsigned type of the model's width *)
Wrap(n) == n % (2 ^ ULongBits)

Digits == <<"0", "1", "2", "3", "4", "5", "6", "7", "8", "9">>

isdigit(c) == \E d \in 1..Len(Digits) : Digits[d] = c

DigitValue(c) == (CHOOSE d \in 1..Len(Digits) : Digits[d] = c) - 1

isspace(c) == c = " "

RECURSIVE SkipSpace(_, _)
SkipSpace(nptr, k) ==
    IF k <= Len(nptr) /\ isspace(nptr[k]) THEN SkipSpace(nptr, k + 1) ELSE k

(* The digits of nptr from position k on: the position after them and     *)
(* their value, ULONG_MAX + 1 standing for any value above ULONG_MAX       *)
RECURSIVE ScanDigits(_, _, _)
ScanDigits(nptr, k, acc) ==
    IF k > Len(nptr) \/ ~isdigit(nptr[k]) THEN [pos |-> k, value |-> acc]
    ELSE LET more == acc * 10 + DigitValue(nptr[k])
         IN  ScanDigits(nptr, k + 1,
                        IF more > ULONG_MAX THEN ULONG_MAX + 1 ELSE more)

(* What errno is after a strtoul() that found nothing to convert: the C    *)
(* standard leaves it alone, POSIX lets the library set EINVAL             *)
NoConversionErrno == {"0", "EINVAL"}

(* strtoul(nptr, &endptr, 10) called with errno = 0: white space, then an  *)
(* optional sign, then digits; a minus sign negates the value as unsigned. *)
(* endptr is the position of the first character not converted.            *)
strtoul(nptr, noconv) ==
    LET start == SkipSpace(nptr, 1)
        sign == IF start <= Len(nptr) /\ nptr[start] \in {"+", "-"}
                THEN nptr[start] ELSE ""
        first == IF sign = "" THEN start ELSE start + 1
        scan == ScanDigits(nptr, first, 0)
    IN  IF scan.pos = first
        THEN [value |-> 0, endptr |-> 1, errno |-> noconv]
        ELSE IF scan.value > ULONG_MAX
        THEN [value |-> ULONG_MAX, endptr |-> scan.pos, errno |-> "ERANGE"]
        ELSE [value |-> IF sign = "-" THEN Wrap(0 - scan.value)
                        ELSE scan.value,
              endptr |-> scan.pos, errno |-> "0"]

(* str2seconds(): the value returned and errno on return *)
str2seconds(unit, string, noconv) ==
    LET r == strtoul(string, noconv)
        delta == r.value
        factor == IF unit = "TU_DAY" THEN 86400 ELSE 60
    IN  IF \/ r.errno = "ERANGE" /\ delta = ULONG_MAX
           \/ r.errno # "0" /\ delta = 0
        THEN [delta |-> delta, errno |-> r.errno]
        ELSE IF r.endptr <= Len(string)
        THEN [delta |-> 0, errno |-> "EINVAL"]
        ELSE IF ULONG_MAX \div factor < delta
        THEN [delta |-> ULONG_MAX, errno |-> "ERANGE"]
        ELSE [delta |-> delta * factor, errno |-> r.errno]

TIME_UNIT2SECONDS(unit) == IF unit = "TU_DAY" THEN 86400 ELSE 60

MinutePredicates == {"-amin", "-mmin", "-cmin"}
DayPredicates == {"-atime", "-mtime", "-ctime"}

predicate2filter_field(pred) ==
    CASE pred \in {"-amin", "-atime"} -> "STATX_ATIME"
      [] pred \in {"-cmin", "-ctime"} -> "STATX_CTIME"
      [] pred \in {"-mmin", "-mtime"} -> "STATX_MTIME"
      [] pred = "-perm" -> "STATX_MODE"
      [] pred \in {"-name", "-iname"} -> "RBH_FP_NAME"
      [] pred = "-size" -> "STATX_SIZE"

(* rbh_filter_compare_uint64_new *)
filter_compare_uint64_new(op, field, value, id) ==
    [op |-> op, p |-> "", kids |-> <<>>, id |-> id,
     field |-> field, value |-> Wrap(value)]

filter_uint64_range_new_half(field, start, end) ==
    filter_and(
        filter_compare_uint64_new("RBH_FOP_STRICTLY_GREATER", field,
                                  start + 43200, 1),
        filter_compare_uint64_new("RBH_FOP_STRICTLY_LOWER", field,
                                  end + 43200, 2),
        3)

filter_uint64_range_new(field, start, end) ==
    filter_and(
        filter_compare_uint64_new("RBH_FOP_STRICTLY_GREATER", field, start, 1),
        filter_compare_uint64_new("RBH_FOP_STRICTLY_LOWER", field, end, 2),
        3)

(* What a call of error() with a non-zero status leaves instead of a filter *)
Failed(code) == [op |-> "error", status |-> code]

(* timedelta2filter(): the filter returned, or the status of the error()   *)
(* that ended the process                                                  *)
timedelta2filter(pred, unit, _timedelta, time, noconv) ==
    LET field == predicate2filter_field(pred)
        operator == IF _timedelta = <<>> THEN "" ELSE _timedelta[1]
        timedelta == IF operator \in {"-", "+"} THEN Tail(_timedelta)
                     ELSE _timedelta
        r == str2seconds(unit, timedelta, noconv)
        delta == r.delta
        then == Wrap(time - delta)
    IN  IF \/ r.errno = "ERANGE" /\ delta = ULONG_MAX
           \/ r.errno # "0" /\ delta = 0
        THEN Failed(EXIT_FAILURE)
        ELSE IF time < 0 THEN Failed(EXIT_FAILURE)
        ELSE CASE operator = "-" ->
                    filter_compare_uint64_new("RBH_FOP_STRICTLY_GREATER",
                                              field, then, 1)
               [] operator = "+" ->
                    filter_compare_uint64_new("RBH_FOP_STRICTLY_LOWER",
                                              field, then, 1)
               [] OTHER ->
                    filter_uint64_range_new(
                        field, then - TIME_UNIT2SECONDS(unit), then)

xmin2filter(pred, minutes, time, noconv) ==
    timedelta2filter(pred, "TU_MINUTE", minutes, time, noconv)

xtime2filter(pred, days, time, noconv) ==
    timedelta2filter(pred, "TU_DAY", days, time, noconv)

(* The strings over an alphabet with at most n characters *)
Strings(alphabet, n) == UNION {[1..k -> alphabet] : k \in 0..n}

(* The arguments the time predicates are run on: signs and spaces, then    *)
(* digits (possibly a thousand times more), then possibly a character that *)
(* is neither                                                              *)
TimeArgs ==
    {pre \o digits \o zeros \o post :
        pre \in Strings({"+", "-", " "}, MaxSigns),
        digits \in Strings({"0", "2", "9"}, MaxDigits),
        zeros \in {<<>>, <<"0", "0", "0">>},
        post \in {<<>>, <<"x">>}}

(* The values of time(NULL): a failure, and a time a little more than five *)
(* days after the epoch                                                    *)
Nows == {0 - 1, 450000}

(* The parser's variables while a predicate compiler runs on its own *)
NoCommandLine ==
    /\ argc = 0
    /\ argv = <<>>
    /\ backend_count = 0
    /\ i = 0
    /\ token = "CLT_PREDICATE"
    /\ stack = <<>>
    /\ did_something = FALSE
    /\ sorts = <<>>
    /\ calls = <<>>
    /\ nalloc = 0
    /\ filters = <<>>
    /\ NoIteration

TimeInit ==
    /\ NoCommandLine
    /\ predicate \in MinutePredicates \cup DayPredicates
    /\ argument \in TimeArgs
    /\ now \in Nows
    /\ usermask = 0
    /\ revision = "umask"
    /\ pc = "predicate"
    /\ retval = NULL
    /\ status = Running

(* The predicate's compiler returned r: parse_predicate() returns the      *)
(* filter, unless error() has ended the process                            *)
Compiled(r) ==
    /\ IF r.op = "error"
       THEN /\ Fatal(r.status)
            /\ UNCHANGED retval
       ELSE /\ retval' = r
            /\ pc' = "done"
            /\ UNCHANGED status
    /\ UNCHANGED <<compiler, iteration,
                   argc, argv, backend_count, i, token, stack,
                   did_something, sorts, calls, nalloc, filters>>

(* parse_predicate(): case PRED_AMIN, PRED_MMIN, PRED_CMIN *)
PredXmin ==
    /\ pc = "predicate"
    /\ predicate \in MinutePredicates
    /\ \E noconv \in NoConversionErrno :
        Compiled(xmin2filter(predicate, argument, now, noconv))

(* parse_predicate(): case PRED_ATIME, PRED_MTIME, PRED_CTIME *)
PredXtime ==
    /\ pc = "predicate"
    /\ predicate \in DayPredicates
    /\ \E noconv \in NoConversionErrno :
        Compiled(xtime2filter(predicate, argument, now, noconv))

TimeNext ==
    \/ PredXmin
    \/ PredXtime

TimeSpec == TimeInit /\ [][TimeNext]_vars

----------------------------------------------------------------------------
(* What the claims on the time predicates are stated with *)

(* The leading sign of an argument, and the argument without it *)
Sign(a) == IF a # <<>> /\ a[1] \in {"+", "-"} THEN a[1] ELSE ""

Unsigned(a) == IF Sign(a) = "" THEN a ELSE Tail(a)

AllDigits(string) == \A k \in 1..Len(string) : isdigit(string[k])

(* The number a string of digits denotes *)
RECURSIVE DecimalValue(_)
DecimalValue(string) ==
    IF string = <<>> THEN 0
    ELSE 10 * DecimalValue(SubSeq(string, 1, Len(string) - 1))
             + DigitValue(string[Len(string)])

(* The number of seconds of the unit of a time predicate *)
Unit(pred) == IF pred \in DayPredicates THEN 86400 ELSE 60

(* a is an optional sign and a count of units of U seconds that fits in an *)
(* unsigned long once converted to seconds                                 *)
AcceptedCount(a, U) ==
    /\ Unsigned(a) # <<>>
    /\ AllDigits(Unsigned(a))
    /\ DecimalValue(Unsigned(a)) <= ULONG_MAX \div U

Count(a) == DecimalValue(Unsigned(a))

(* The timestamps an entry can have that are next to one of the bounds, or *)
(* the least or the greatest one                                           *)
Timestamps(bounds) ==
    (UNION {{b - 1, b, b + 1} : b \in bounds} \cup {0, ULONG_MAX})
        \cap (0..ULONG_MAX)

(* Whether an entry whose field has value v passes a filter made of        *)
(* comparisons of that field                                               *)
RECURSIVE CompareMatches(_, _)
CompareMatches(f, v) ==
    CASE f.op = "RBH_FOP_STRICTLY_LOWER" -> v < f.value
      [] f.op = "RBH_FOP_STRICTLY_GREATER" -> v > f.value
      [] f.op = "and" ->
            CompareMatches(f.kids[1], v) /\ CompareMatches(f.kids[2], v)

(* C12: a time predicate of unit U run on +N (N accepted) returns the one  *)
(* comparison StrictlyLower(field, now - N*U), and on -N the one           *)
(* comparison StrictlyGreater(field, now - N*U): it matches the entries    *)
(* whose timestamp is more, resp. less, than N units before now.           *)
C12_SignedTimeArgument ==
    (/\ pc = "done"
     /\ Sign(argument) # ""
     /\ AcceptedCount(argument, Unit(predicate))) =>
        LET bound == now - Count(argument) * Unit(predicate)
        IN  /\ retval.op = IF Sign(argument) = "+"
                           THEN "RBH_FOP_STRICTLY_LOWER"
                           ELSE "RBH_FOP_STRICTLY_GREATER"
            /\ retval.kids = <<>>
            /\ retval.field = predicate2filter_field(predicate)
            /\ retval.value = bound
            /\ \A t \in Timestamps({bound}) :
                CompareMatches(retval, t) <=>
                    IF Sign(argument) = "+" THEN t < bound ELSE t > bound

(* C13: a time predicate of unit U run on N without a sign (N accepted)    *)
(* returns And(StrictlyGreater(field, now - N*U - U),                      *)
(* StrictlyLower(field, now - N*U)): it matches exactly the timestamps     *)
(* strictly between now - (N+1)*U and now - N*U.                           *)
C13_UnsignedTimeArgument ==
    (/\ pc = "done"
     /\ Sign(argument) = ""
     /\ AcceptedCount(argument, Unit(predicate))) =>
        LET end == now - Count(argument) * Unit(predicate)
            start == end - Unit(predicate)
        IN  /\ retval.op = "and"
            /\ Len(retval.kids) = 2
            /\ retval.kids[1].op = "RBH_FOP_STRICTLY_GREATER"
            /\ retval.kids[1].field = predicate2filter_field(predicate)
            /\ retval.kids[1].value = start
            /\ retval.kids[2].op = "RBH_FOP_STRICTLY_LOWER"
            /\ retval.kids[2].field = predicate2filter_field(predicate)
            /\ retval.kids[2].value = end
            /\ \A t \in Timestamps({start, end}) :
                CompareMatches(retval, t) <=> (start < t /\ t < end)

(* The timestamp of an entry that is q quarters of a day old at now *)
DaysAgo(q) == now - q * 21600

MtimeTwo == pc = "done" /\ predicate = "-mtime" /\ argument = <<"2">>

(* C14 as stated: of entries aged 0.5, 2.0 and 5.0 days, -mtime 2 selects  *)
(* the 2.0-day one only, as it matches the entries aged between 1.5 and    *)
(* 2.5 days (1.75 and 2.25 days are inside, 1.25 and 2.75 outside).        *)
C14_MtimeTwoIsHalfDayAround ==
    (MtimeTwo /\ DaysAgo(20) >= 0) =>
        /\ ~CompareMatches(retval, DaysAgo(2))
        /\ CompareMatches(retval, DaysAgo(8))
        /\ ~CompareMatches(retval, DaysAgo(20))
        /\ CompareMatches(retval, DaysAgo(7))
        /\ CompareMatches(retval, DaysAgo(9))
        /\ ~CompareMatches(retval, DaysAgo(5))
        /\ ~CompareMatches(retval, DaysAgo(11))

(* C14, amended: -mtime 2 matches exactly the entries modified strictly    *)
(* more than 2 and strictly less than 3 days before now.  Of entries aged  *)
(* 0.5, 2.0, 2.5 and 5.0 days it selects the 2.5-day one only: 2.0 days is *)
(* the excluded bound.                                                     *)
C14_MtimeTwoIsTwoToThreeDays ==
    (MtimeTwo /\ DaysAgo(20) >= 0) =>
        /\ ~CompareMatches(retval, DaysAgo(2))
        /\ ~CompareMatches(retval, DaysAgo(8))
        /\ CompareMatches(retval, DaysAgo(10))
        /\ ~CompareMatches(retval, DaysAgo(20))
        /\ \A t \in Timestamps({DaysAgo(8), DaysAgo(12)}) :
            CompareMatches(retval, t) <=> (DaysAgo(12) < t /\ t < DaysAgo(8))

C14_Witness ==
    /\ MtimeTwo
    /\ DaysAgo(20) >= 0
    /\ retval.op = "and"
    /\ CompareMatches(retval, DaysAgo(10))
    /\ ~CompareMatches(retval, DaysAgo(8))

(* C15: a time predicate returns a filter only for an argument that is,    *)
(* after at most one sign, a non-empty string of digits whose count of     *)
(* units fits in an unsigned long as seconds; for every other argument it  *)
(* ends the process with an error and no filter.                           *)
C15_TimeArgumentSyntax ==
    pc # "predicate" =>
        /\ pc = "done" => AcceptedCount(argument, Unit(predicate))
        /\ ~AcceptedCount(argument, Unit(predicate)) =>
            /\ pc = "fatal"
            /\ status = EXIT_FAILURE
            /\ retval = NULL

----------------------------------------------------------------------------
(* The permission predicate, compiled on its own:                          *)
(* parse_predicate -> mode2filter -> str2mode -> parse_symbolic            *)

(* The width of uint32_t in the model: more than the 12 bits of a mode,    *)
(* less than an unsigned long                                              *)
UInt32Bits == 15
(* The longest octal mode and the most clauses of a symbolic mode *)
MaxOctal == 6
MaxClauses == 2

(* The mode written in C as 0abcd *)
Octal(a, b, c, d) == ((a * 8 + b) * 8 + c) * 8 + d

S_ISUID_above == 2 * Octal(4, 0, 0, 0)

S_ISUID == Octal(4, 0, 0, 0)
S_ISGID == Octal(2, 0, 0, 0)
S_ISVTX == Octal(1, 0, 0, 0)

(* a & b, a | b and a & ~b *)
RECURSIVE BitAnd(_, _)
BitAnd(a, b) ==
    IF a = 0 \/ b = 0 THEN 0
    ELSE 2 * BitAnd(a \div 2, b \div 2) + (a % 2) * (b % 2)

BitOr(a, b) == a + b - BitAnd(a, b)

BitClear(a, b) == a - BitAnd(a, b)

(* c ? bits : 0 *)
If(c, bits) == IF c THEN bits ELSE 0

(* input[k], the terminating NUL being "" *)
Char(input, k) == IF k <= Len(input) THEN input[k] ELSE ""

NoWho == [user |-> FALSE, group |-> FALSE, other |-> FALSE, all |-> FALSE]

(* parse_symbolic(): the first loop, over the letters u, g, o and a *)
RECURSIVE ScanWho(_, _, _)
ScanWho(input, k, w) ==
    LET c == Char(input, k)
    IN  CASE c = "u" -> ScanWho(input, k + 1, [w EXCEPT !.user = TRUE])
          [] c = "g" -> ScanWho(input, k + 1, [w EXCEPT !.group = TRUE])
          [] c = "o" -> ScanWho(input, k + 1, [w EXCEPT !.other = TRUE])
          [] c = "a" -> ScanWho(input, k + 1,
                                [user |-> TRUE, group |-> TRUE,
                                 other |-> TRUE, all |-> TRUE])
          [] OTHER -> [pos |-> k, who |-> w]

(* The user, group and other copies of a bit given in user position, for   *)
(* the classes of w                                                        *)
ClassBits(w, bit) ==
    BitOr(BitOr(If(w.user, bit), If(w.group, bit \div 8)),
          If(w.other, bit \div 64))

sticky_applies_always(w) == TRUE

(* parse_symbolic(): case 't', !who || all *)
sticky_applies(w) == ~(w.user \/ w.group \/ w.other) \/ w.all

(* parse_symbolic(): the second loop, over the letters r, w, x, X, s, t *)
RECURSIVE ScanPerms(_, _, _, _, _, _)
ScanPerms(input, k, perm, w, mask, mode) ==
    LET c == Char(input, k)
        who == w.user \/ w.group \/ w.other
        rwx(bit, every) ==
            BitOr(perm, BitOr(ClassBits(w, bit),
                              If(~who, BitClear(every, mask))))
    IN  CASE c = "r" ->
                ScanPerms(input, k + 1,
                          rwx(Octal(0, 4, 0, 0), Octal(0, 4, 4, 4)),
                          w, mask, mode)
          [] c = "w" ->
                ScanPerms(input, k + 1,
                          rwx(Octal(0, 2, 0, 0), Octal(0, 2, 2, 2)),
                          w, mask, mode)
          [] c = "x" ->
                ScanPerms(input, k + 1,
                          rwx(Octal(0, 1, 0, 0), Octal(0, 1, 1, 1)),
                          w, mask, mode)
          [] c = "X" ->
                ScanPerms(input, k + 1,
                          IF BitAnd(mode, Octal(0, 1, 1, 1)) # 0
                          THEN BitOr(perm, ClassBits(w, Octal(0, 1, 0, 0)))
                          ELSE perm,
                          w, mask, mode)
          [] c = "s" ->
                ScanPerms(input, k + 1,
                          IF w.other /\ ~w.group /\ ~w.user THEN perm
                          ELSE BitOr(perm, BitOr(If(w.user, S_ISUID),
                                                 If(w.group, S_ISGID))),
                          w, mask, mode)
          [] c = "t" ->
                ScanPerms(input, k + 1,
                          BitOr(perm, If(sticky_applies(w), S_ISVTX)),
                          w, mask, mode)
          [] OTHER -> [pos |-> k, perm |-> perm]

(* The sources keep two revisions of the permission parser: one reads the  *)
(* umask of the process and parses a clause in one function, the other     *)
(* splits the clause parser into helpers and checks where strtoul stopped  *)
Revisions == {"umask", "helpers"}

(* parse_symbolic(): the umask of the process, read when who is empty; the *)
(* revision with helpers never reads it                                    *)
get_umask(who, umask) ==
    IF who \/ revision = "helpers" THEN 0
    ELSE BitAnd(umask, Octal(7, 7, 7, 7))

(* parse_symbolic(input, mode, end) run on the clause that starts at       *)
(* position start of input: the value returned, *mode and *end on return.  *)
(* umask is the mask of the process, read only when the who part is empty. *)
parse_symbolic(input, start, mode, umask) ==
    LET scanned == ScanWho(input, start, NoWho)
        w == scanned.who
        who == w.user \/ w.group \/ w.other
        mask == get_umask(who, umask)
        op == Char(input, scanned.pos)
        source == Char(input, scanned.pos + 1)
        previous_flags ==
            CASE source = "u" -> BitAnd(mode, Octal(0, 7, 0, 0))
              [] source = "g" -> BitAnd(mode, Octal(0, 0, 7, 0))
              [] source = "o" -> BitAnd(mode, Octal(0, 0, 0, 7))
              [] OTHER -> 0
        as_user ==
            CASE source = "u" -> previous_flags
              [] source = "g" -> previous_flags * 8
              [] source = "o" -> previous_flags * 64
              [] OTHER -> 0
        copy == IF source \in {"u", "g", "o"}
                THEN [pos |-> scanned.pos + 2, perm |-> ClassBits(w, as_user)]
                ELSE [pos |-> scanned.pos + 1, perm |-> 0]
        copied == IF revision = "helpers" THEN copy.perm ELSE previous_flags
        scan == IF revision = "helpers"
                THEN ScanPerms(input, copy.pos, copy.perm, w, mask, mode)
                ELSE IF source \in {"u", "g", "o"} THEN copy
                ELSE ScanPerms(input, scanned.pos + 1, 0, w, mask, mode)
        perm == scan.perm
    IN  IF op \notin {"-", "+", "="}
        THEN [rc |-> 0 - 1, mode |-> mode, end |-> start]
        ELSE IF copied # 0 /\ Char(input, copy.pos) \notin {"", ","}
        THEN [rc |-> 0 - 1, mode |-> mode, end |-> start]
        ELSE [rc |-> 0,
              mode |-> CASE op = "-" -> BitClear(mode, perm)
                         [] op = "+" -> BitOr(mode, perm)
                         [] op = "=" -> IF perm # 0 THEN perm ELSE mode,
              end |-> scan.pos]

RECURSIVE SymbolicLoop_fresh(_, _, _, _)
SymbolicLoop_fresh(input, k, mode, umask) ==
    LET r == parse_symbolic(input, k, 0, umask)
    IN  IF r.rc # 0 THEN [rc |-> 0 - 1, mode |-> mode]
        ELSE IF Char(input, r.end) = ","
        THEN SymbolicLoop_fresh(input, r.end + 1, BitOr(mode, r.mode), umask)
        ELSE IF Char(input, r.end) # "" THEN [rc |-> 0 - 1, mode |-> mode]
        ELSE [rc |-> 0, mode |-> BitOr(mode, r.mode)]

(* str2mode(): the do/while loop over the comma-separated clauses *)
RECURSIVE SymbolicLoop(_, _, _, _)
SymbolicLoop(input, k, mode, umask) ==
    LET r == parse_symbolic(input, k, mode, umask)
    IN  IF r.rc # 0 THEN [rc |-> 0 - 1, mode |-> r.mode]
        ELSE IF Char(input, r.end) = ","
        THEN SymbolicLoop(input, r.end + 1, r.mode, umask)
        ELSE IF Char(input, r.end) # "" THEN [rc |-> 0 - 1, mode |-> r.mode]
        ELSE [rc |-> 0, mode |-> r.mode]

OctalDigits == {"0", "1", "2", "3", "4", "5", "6", "7"}

(* The octal digits of nptr from position k on, as ScanDigits *)
RECURSIVE ScanOctal(_, _, _)
ScanOctal(nptr, k, acc) ==
    IF Char(nptr, k) \notin OctalDigits THEN [pos |-> k, value |-> acc]
    ELSE LET more == acc * 8 + DigitValue(nptr[k])
         IN  ScanOctal(nptr, k + 1,
                       IF more > ULONG_MAX THEN ULONG_MAX + 1 ELSE more)

(* The end of the run of decimal digits that starts at position k *)
RECURSIVE DigitRun(_, _)
DigitRun(input, k) ==
    IF k <= Len(input) /\ isdigit(input[k]) THEN DigitRun(input, k + 1)
    ELSE k

(* str2mode(input, &mode): the value returned and *mode.  The result of    *)
(* strtoul(input, &end, 8), an unsigned long, is stored in a uint32_t.     *)
str2mode(input, umask) ==
    IF Char(input, 1) \in OctalDigits
    THEN LET scan == ScanOctal(input, 1, 0)
             erange == scan.value > ULONG_MAX
             mode == (IF erange THEN ULONG_MAX ELSE scan.value)
                         % (2 ^ UInt32Bits)
         IN  IF /\ revision = "umask"
                /\ \E k \in 1..(DigitRun(input, 1) - 1) : input[k] \in {"8", "9"}
             THEN [rc |-> 0 - 1, mode |-> 0]
             ELSE IF erange \/ mode > Octal(7, 7, 7, 7)
             THEN [rc |-> 0 - 1, mode |-> 0]
             ELSE IF revision = "helpers" /\ Char(input, scan.pos) # ""
             THEN [rc |-> 0 - 1, mode |-> 0]
             ELSE [rc |-> 0, mode |-> mode]
    ELSE IF Char(input, 1) \in {"8", "9"}
    THEN [rc |-> 0 - 1, mode |-> 0]
    ELSE SymbolicLoop(input, 1, 0, umask)

mode_operator_equal(first) == "RBH_FOP_EQUAL"

(* mode2filter(): operator, from the first character of the argument *)
mode_operator(first) ==
    CASE first = "/" -> "RBH_FOP_BITS_ANY_SET"
      [] first = "-" -> "RBH_FOP_BITS_ALL_SET"
      [] OTHER -> "RBH_FOP_EQUAL"

(* rbh_filter_compare_uint32_new *)
filter_compare_uint32_new(op, field, value, id) ==
    [op |-> op, p |-> "", kids |-> <<>>, id |-> id,
     field |-> field, value |-> value]

mode2filter(modestr, umask) ==
    IF modestr = <<>> THEN Failed(EX_USAGE)
    ELSE LET rest == IF modestr[1] \in {"/", "-"} THEN Tail(modestr)
                     ELSE modestr
             r == str2mode(rest, umask)
         IN  IF r.rc # 0 THEN Failed(EX_USAGE)
             ELSE filter_compare_uint32_new(mode_operator(modestr[1]),
                                            predicate2filter_field("-perm"),
                                            r.mode, 1)

(* The clauses symbolic modes are made of: who, operator, permissions; the *)
(* empty clause; and some with the operator "-"                            *)
Clauses ==
    {who \o <<op>> \o perms :
        who \in {<<>>, <<"u">>, <<"g">>, <<"a">>},
        op \in {"+", "="},
        perms \in {<<>>, <<"r">>, <<"x">>, <<"X">>, <<"u">>}}
    \cup {<<>>, <<"u", "-", "x">>, <<"-", "r">>}

(* The comma-separated lists of at most n clauses *)
RECURSIVE ClauseLists(_)
ClauseLists(n) ==
    IF n = 0 THEN {}
    ELSE LET shorter == ClauseLists(n - 1)
         IN  Clauses \cup shorter
                 \cup {l \o <<",">> \o c : l \in shorter, c \in Clauses}

(* The modes of the test suite and of the documentation, well-formed and   *)
(* not                                                                     *)
ExampleModes ==
    {<<"6", "4", "4">>, <<"0", "7", "7", "7", "7">>, <<"7", "8", "9">>,
     <<"1", "0", "0", "0", "0">>, <<"1", "7", "7", "7", "7">>,
     <<"o", "=", "r", ",", "u", "g", "+", "o", ",", "u", "+", "w">>,
     <<"u", "=", "r", ",", "a", "+", "u", ",", "u", "+", "w">>,
     <<"g", "=", "r", ",", "u", "g", "o", "=", "g", ",", "u", "+", "w">>,
     <<"u", "+", "x", ",", "g", "o", "+", "X">>,
     <<"u", "=", "r", "w", "x", ",", "g", "=", "r">>,
     <<"o", "+", "s", "r">>, <<"+", "t">>, <<"+", "w", "x">>,
     <<"a", "b", "c", "d">>, <<"u", "r", "w">>,
     <<"u", "g", "=", "u", "u">>, <<"u", "g", "=", "a">>,
     <<"u", "+", "x", "g", "+", "x">>,
     <<"a", "=", "r", ",", "u", "+", "x", ",">>}

(* The who parts of the clauses with s, t, r, w and x *)
Whos ==
    {<<>>, <<"u">>, <<"g">>, <<"o">>, <<"a">>, <<"u", "g">>, <<"g", "o">>,
     <<"u", "o">>, <<"u", "g", "o">>, <<"o", "a">>}

(* Clauses that add the letters s and t, alone and after another one *)
SpecialClauses ==
    {who \o <<"+">> \o perms :
        who \in Whos,
        perms \in {<<"s">>, <<"t">>, <<"s", "t">>, <<"t", "s">>}}

SpecialModes ==
    SpecialClauses
        \cup {c \o <<",">> \o d : c \in SpecialClauses, d \in SpecialClauses}

(* Clauses that add or set some of the letters r, w and x *)
RwxModes ==
    {who \o <<op>> \o perms :
        who \in Whos, op \in {"+", "="},
        perms \in Strings({"r", "w", "x"}, 3) \ {<<>>}}

(* Malformed clauses, alone and after clauses that leave different modes *)
MalformedModes ==
    {before \o bad :
        before \in {<<>>, <<"u", "+", "r", "w", "x", ",">>,
                    <<"a", "=", "r", ",">>, <<"o", "+", "x", ",">>,
                    <<"g", "+", "w", ",">>},
        bad \in {<<"u", "r", "w">>, <<"a", "b", "c", "d">>,
                 <<"u", "g", "=", "u", "u">>, <<"u", "g", "=", "g", "u">>,
                 <<"u", "o", "=", "o", "u">>, <<"g", "=", "u", "r">>,
                 <<"g", "=", "u", "x">>, <<"o", "=", "g", "s">>,
                 <<"u", "=", "o", "t">>, <<"=", "u", "r">>,
                 <<"u", "g", "=", "a">>, <<"u", "+", "x", "g", "+", "x">>,
                 <<"u", "+", "x", ",">>, <<"u", "+", "r", "w", "x", "u">>}}

(* The arguments -perm is run on: an optional prefix, then digits and      *)
(* possibly another character, or one clause, or an example; and lists of  *)
(* clauses without prefix                                                  *)
PermArgs ==
    {prefix \o mode :
        prefix \in {<<>>, <<"/">>, <<"-">>},
        mode \in {digits \o post :
                     digits \in Strings({"0", "7", "8"}, MaxOctal),
                     post \in {<<>>, <<"x">>}}
                 \cup Clauses \cup ExampleModes}
    \cup ClauseLists(MaxClauses) \cup SpecialModes \cup RwxModes
    \cup MalformedModes

(* The file mode creation masks of the process *)
Umasks == {0, Octal(0, 0, 2, 2), Octal(0, 0, 7, 7)}

PermInit ==
    /\ NoCommandLine
    /\ predicate = "-perm"
    /\ argument \in PermArgs
    /\ now = 0
    /\ usermask \in Umasks
    /\ revision \in Revisions
    /\ pc = "predicate"
    /\ retval = NULL
    /\ status = Running

(* parse_predicate(): case PRED_PERM *)
PredPerm ==
    /\ pc = "predicate"
    /\ predicate = "-perm"
    /\ Compiled(mode2filter(argument, usermask))

PermNext == PredPerm

PermSpec == PermInit /\ [][PermNext]_vars

----------------------------------------------------------------------------
(* What the claims on the permission predicate are stated with *)

(* The argument without its prefix "/" or "-" *)
ModePart(a) == IF Char(a, 1) \in {"/", "-"} THEN Tail(a) ELSE a

(* The number a string of octal digits denotes *)
RECURSIVE OctalValue(_)
OctalValue(string) ==
    IF string = <<>> THEN 0
    ELSE 8 * OctalValue(SubSeq(string, 1, Len(string) - 1))
             + DigitValue(string[Len(string)])

AllOctal(string) == \A k \in 1..Len(string) : string[k] \in OctalDigits

(* C16: a mode that begins with a digit is accepted iff all its characters *)
(* are octal digits and its octal value is at most 07777, and then the     *)
(* mode compared is that value; 644 gives Equal 0644.                      *)
C16_OctalMode ==
    (pc # "predicate" /\ isdigit(Char(ModePart(argument), 1))) =>
        LET mode == ModePart(argument)
            valid == AllOctal(mode) /\ OctalValue(mode) <= Octal(7, 7, 7, 7)
        IN  /\ pc = "done" <=> valid
            /\ pc = "done" => retval.value = OctalValue(mode)
            /\ ~valid => pc = "fatal" /\ status = EX_USAGE /\ retval = NULL
            /\ (pc = "done" /\ argument = <<"6", "4", "4">>) =>
                /\ retval.op = "RBH_FOP_EQUAL"
                /\ retval.value = Octal(0, 6, 4, 4)

(* C17: the operator of the filter depends on the first character of the   *)
(* argument only (/ BitsAnySet, - BitsAllSet, else Equal); the mode is     *)
(* that of the argument without the prefix; an empty argument and a        *)
(* prefix alone are usage errors.                                          *)
C17_ModePrefix ==
    pc # "predicate" =>
        LET first == Char(argument, 1)
            r == str2mode(ModePart(argument), usermask)
        IN  /\ ModePart(argument) = <<>> =>
                pc = "fatal" /\ status = EX_USAGE /\ retval = NULL
            /\ pc = "done" <=> (ModePart(argument) # <<>> /\ r.rc = 0)
            /\ pc = "done" =>
                /\ retval.op = IF first = "/" THEN "RBH_FOP_BITS_ANY_SET"
                               ELSE IF first = "-" THEN "RBH_FOP_BITS_ALL_SET"
                               ELSE "RBH_FOP_EQUAL"
                /\ retval.kids = <<>>
                /\ retval.field = "STATX_MODE"
                /\ retval.value = r.mode

(* -perm /644: BitsAnySet with the mode of 644 *)
C17_Witness ==
    /\ pc = "done"
    /\ argument = <<"/", "6", "4", "4">>
    /\ retval.op = "RBH_FOP_BITS_ANY_SET"
    /\ retval.value = Octal(0, 6, 4, 4)

(* The clauses of a symbolic mode: the parts between its commas *)
RECURSIVE SplitClauses(_, _)
SplitClauses(input, clause) ==
    IF input = <<>> THEN <<clause>>
    ELSE IF Head(input) = "," THEN <<clause>> \o SplitClauses(Tail(input), <<>>)
    ELSE SplitClauses(Tail(input), Append(clause, Head(input)))

ClausesOf(a) == SplitClauses(ModePart(a), <<>>)

(* The mode left by the clauses cs applied in order, each one alone, from  *)
(* mode on                                                                 *)
RECURSIVE ApplyClauses(_, _)
ApplyClauses(cs, mode) ==
    IF cs = <<>> THEN mode
    ELSE ApplyClauses(Tail(cs),
                      parse_symbolic(Head(cs), 1, mode, usermask).mode)

(* The mode the last clause of an accepted symbolic mode was applied to *)
Prior == ApplyClauses(SubSeq(ClausesOf(argument), 1,
                             Len(ClausesOf(argument)) - 1), 0)

LastClause == ClausesOf(argument)[Len(ClausesOf(argument))]

SymbolicDone == pc = "done" /\ ~isdigit(Char(ModePart(argument), 1))

ModeOf(a) == pc = "done" /\ argument = a

(* For every accepted symbolic mode the mode compared is the result of     *)
(* applying its clauses one after the other, the first one to mode 0       *)
ClausesInOrder ==
    /\ SymbolicDone => retval.value = ApplyClauses(ClausesOf(argument), 0)
    /\ \A a \in {<<"o", "=", "r", ",", "u", "g", "+", "o", ",", "u", "+", "w">>,
                 <<"u", "=", "r", ",", "a", "+", "u", ",", "u", "+", "w">>,
                 <<"g", "=", "r", ",", "u", "g", "o", "=", "g", ",", "u", "+",
                   "w">>} :
        ModeOf(a) => retval.value = Octal(0, 6, 4, 4)

(* C18 as stated: the clauses apply in order, each to the mode left by the *)
(* ones before it; the three examples give 0644 and u+x,go+X gives 0110.   *)
C18_ClausesApplyInOrder ==
    /\ ClausesInOrder
    /\ ModeOf(<<"u", "+", "x", ",", "g", "o", "+", "X">>) =>
        retval.value = Octal(0, 1, 1, 0)

(* C18, amended: the clauses apply in order, each to the mode left by the  *)
(* ones before it; the three examples give 0644, u+x,go+X gives 0111 and   *)
(* u+x,g+X gives 0110.                                                     *)
C18_ClausesApplyInOrderTo0111 ==
    /\ ClausesInOrder
    /\ ModeOf(<<"u", "+", "x", ",", "g", "o", "+", "X">>) =>
        retval.value = Octal(0, 1, 1, 1)
    /\ ModeOf(<<"u", "+", "x", ",", "g", "+", "X">>) =>
        retval.value = Octal(0, 1, 1, 0)

(* a copy clause that reads what the first clause wrote *)
C18_Witness ==
    /\ ModeOf(<<"o", "=", "r", ",", "u", "g", "+", "o", ",", "u", "+", "w">>)
    /\ retval.value = Octal(0, 6, 4, 4)
    /\ Prior = Octal(0, 4, 4, 4)

(* C19: a last clause a=r leaves exactly 0444, and a last clause g=u       *)
(* leaves group bits equal to the user bits of the mode it was applied to, *)
(* whatever that mode.                                                     *)
C19_AllReadAndCopyUser ==
    /\ (SymbolicDone /\ LastClause = <<"a", "=", "r">>) =>
        retval.value = Octal(0, 4, 4, 4)
    /\ (SymbolicDone /\ LastClause = <<"g", "=", "u">>) =>
        BitAnd(retval.value, Octal(0, 0, 7, 0)) * 8
            = BitAnd(Prior, Octal(0, 7, 0, 0))

(* C20: a last clause +X applied to a mode without execute bit leaves no   *)
(* execute bit; applied to a mode with an execute bit it sets the execute  *)
(* bit of the classes an empty who stands for (user, group and other,      *)
(* less the bits of the umask).                                            *)
C20_ConditionalExecute ==
    (SymbolicDone /\ LastClause = <<"+", "X">>) =>
        IF BitAnd(Prior, Octal(0, 1, 1, 1)) = 0
        THEN BitAnd(retval.value, Octal(0, 1, 1, 1)) = 0
        ELSE LET implied == BitClear(Octal(0, 1, 1, 1), usermask)
             IN  BitAnd(retval.value, implied) = implied

(* The characters of a clause before and after its operator *)
Operators == {"+", "-", "="}

WhoOf(clause) ==
    SubSeq(clause, 1, (CHOOSE k \in 1..Len(clause) :
                          clause[k] \in Operators
                          /\ \A j \in 1..(k - 1) : clause[j] \notin Operators)
                      - 1)

PermsOf(clause) == SubSeq(clause, Len(WhoOf(clause)) + 2, Len(clause))

Has(string, c) == \E k \in 1..Len(string) : string[k] = c

HasBit(mode, bit) == BitAnd(mode, bit) # 0

(* C21: in a clause that adds s and t, s sets setuid iff who has u or a    *)
(* and setgid iff who has g or a, t sets the sticky bit iff who is empty   *)
(* or has a; every such clause is accepted, o+s and ug+t with no effect.   *)
C21_SetIdAndSticky ==
    (pc # "predicate" /\ ModePart(argument) \in SpecialModes) =>
        LET who == WhoOf(LastClause)
            perms == PermsOf(LastClause)
            all == Has(who, "a")
        IN  /\ pc = "done"
            /\ HasBit(retval.value, S_ISUID) <=>
                \/ HasBit(Prior, S_ISUID)
                \/ Has(perms, "s") /\ (Has(who, "u") \/ all)
            /\ HasBit(retval.value, S_ISGID) <=>
                \/ HasBit(Prior, S_ISGID)
                \/ Has(perms, "s") /\ (Has(who, "g") \/ all)
            /\ HasBit(retval.value, S_ISVTX) <=>
                \/ HasBit(Prior, S_ISVTX)
                \/ Has(perms, "t") /\ (who = <<>> \/ all)
            /\ BitAnd(retval.value, Octal(0, 7, 7, 7)) = 0
            /\ LastClause \in {<<"o", "+", "s">>, <<"u", "g", "+", "t">>} =>
                retval.value = Prior

(* u+s,go+st: the second clause adds setgid and nothing else *)
C21_Witness ==
    /\ ModeOf(<<"u", "+", "s", ",", "g", "o", "+", "s", "t">>)
    /\ Prior = S_ISUID
    /\ retval.value = BitOr(S_ISUID, S_ISGID)

(* The bits the letters r, w and x of perms stand for, in every class *)
RwxBits(perms) ==
    BitOr(BitOr(If(Has(perms, "r"), Octal(0, 4, 4, 4)),
                If(Has(perms, "w"), Octal(0, 2, 2, 2))),
          If(Has(perms, "x"), Octal(0, 1, 1, 1)))

(* The bits of the classes named by who *)
ClassMask(who) ==
    BitOr(BitOr(If(Has(who, "u") \/ Has(who, "a"), Octal(0, 7, 0, 0)),
                If(Has(who, "g") \/ Has(who, "a"), Octal(0, 0, 7, 0))),
          If(Has(who, "o") \/ Has(who, "a"), Octal(0, 0, 0, 7)))

(* C22: a clause of letters r, w, x with an empty who gives the bits of    *)
(* the letters for user, group and other less the bits of the umask (+wx   *)
(* gives 0333 & ~umask); with an explicit who it gives the bits of the     *)
(* letters for the classes named, whatever the umask.                      *)
C22_EmptyWhoUsesUmask ==
    (pc # "predicate" /\ argument \in RwxModes \cup {<<"+", "w", "x">>}) =>
        LET who == WhoOf(argument)
            bits == RwxBits(PermsOf(argument))
        IN  /\ pc = "done"
            /\ retval.value = IF who = <<>> THEN BitClear(bits, usermask)
                              ELSE BitAnd(bits, ClassMask(who))
            /\ argument = <<"+", "w", "x">> =>
                retval.value = BitClear(Octal(0, 3, 3, 3), usermask)

(* A clause of the grammar: who letters, one operator, then either one     *)
(* copy letter or permission letters                                       *)
WellFormedClause(clause) ==
    \E k \in 1..Len(clause) :
        /\ clause[k] \in Operators
        /\ \A j \in 1..(k - 1) : clause[j] \in {"u", "g", "o", "a"}
        /\ LET perms == SubSeq(clause, k + 1, Len(clause))
           IN  \/ Len(perms) = 1 /\ perms[1] \in {"u", "g", "o"}
               \/ \A j \in 1..Len(perms) :
                      perms[j] \in {"r", "w", "x", "X", "s", "t"}

Symbolic(a) == ModePart(a) # <<>> /\ ~isdigit(Char(ModePart(a), 1))

(* C23: a symbolic mode with a malformed clause (no operator, a copy       *)
(* letter followed by another letter, characters left over after the       *)
(* clause, an empty clause after a comma) is a usage error, whatever the   *)
(* clauses before it.                                                      *)
C23_MalformedClause ==
    (/\ pc # "predicate"
     /\ Symbolic(argument)
     /\ \E k \in 1..Len(ClausesOf(argument)) :
            ~WellFormedClause(ClausesOf(argument)[k])) =>
        pc = "fatal" /\ status = EX_USAGE /\ retval = NULL

(* The modes between the clauses of an accepted symbolic mode, the one     *)
(* compared included                                                       *)
Intermediate ==
    {ApplyClauses(SubSeq(ClausesOf(argument), 1, n), 0) :
        n \in 0..Len(ClausesOf(argument))}

(* C24: the mode compared for an accepted argument, octal or symbolic, and *)
(* every mode between the clauses of a symbolic one, is within 0..07777.   *)
C24_ModeWithinTwelveBits ==
    pc = "done" =>
        /\ retval.value \in 0..Octal(7, 7, 7, 7)
        /\ Symbolic(argument) =>
            /\ retval.value \in Intermediate
            /\ Intermediate \subseteq 0..Octal(7, 7, 7, 7)

(* a+st,u+s: the three special bits are set by the first clause *)
C24_Witness ==
    /\ ModeOf(<<"a", "+", "s", "t", ",", "u", "+", "s">>)
    /\ retval.value = Octal(7, 0, 0, 0)
    /\ Intermediate = {0, Octal(7, 0, 0, 0)}

----------------------------------------------------------------------------
(* The name predicates: shell2pcre() and shell_regex2filter().  A glob and *)
(* a regular expression are sequences of characters.                       *)

(* The longest glob drawn from the alphabet *)
MaxGlob == 4

Backslash == "\\"
Newline == "\n"

(* The characters shell2pcre() escapes in its second pass *)
Metacharacters == {".", "|", "+", "(", ")", "{", "}"}

(* The characters its first pass counts twice *)
CountedTwice == {"*", "?", "|", "+", "(", ")", "{", "}"}

toggle_escaped_set(escaped) == TRUE

(* escaped = !escaped *)
toggle_escaped(escaped) == ~escaped

(* shell2pcre(): the first loop; the value of len after it, the            *)
(* terminating NUL counted                                                 *)
RECURSIVE FirstPass(_, _, _, _)
FirstPass(shell, k, escaped, len) ==
    LET c == Char(shell, k)
    IN  CASE c = "" -> len + 1
          [] c = Backslash ->
                FirstPass(shell, k + 1, toggle_escaped(escaped), len + 1)
          [] c \in CountedTwice ->
                FirstPass(shell, k + 1, FALSE,
                          IF escaped THEN len + 1 ELSE len + 2)
          [] c \in {"[", "]"} -> FirstPass(shell, k + 1, FALSE, len + 1)
          [] OTHER ->
                FirstPass(shell, k + 1, FALSE,
                          IF escaped THEN len ELSE len + 1)

(* strncpy(&pcre[k], &shell[j], n): the n characters appended *)
strncpy(shell, j, n) == SubSeq(shell, j, j + n - 1)

(* shell2pcre(): the second loop and the copy after it; pcre is what has   *)
(* been written after the anchor, shell[j] the first character not yet     *)
(* copied                                                                  *)
RECURSIVE SecondPass(_, _, _, _, _)
SecondPass(shell, k, j, escaped, pcre) ==
    IF k > Len(shell) THEN pcre \o strncpy(shell, j, k - j)
    ELSE LET c == shell[k]
             flushed == pcre \o strncpy(shell, j, k - j)
         IN  CASE c = Backslash ->
                    SecondPass(shell, k + 1, j, toggle_escaped(escaped), pcre)
               [] c = "*" ->
                    IF escaped THEN SecondPass(shell, k + 1, j, FALSE, pcre)
                    ELSE SecondPass(shell, k + 1, k, FALSE,
                                    Append(flushed, "."))
               [] c = "?" ->
                    IF escaped THEN SecondPass(shell, k + 1, j, FALSE, pcre)
                    ELSE SecondPass(shell, k + 1, k + 1, FALSE,
                                    Append(flushed, "."))
               [] c \in Metacharacters ->
                    IF escaped THEN SecondPass(shell, k + 1, j, FALSE, pcre)
                    ELSE SecondPass(shell, k + 1, k, FALSE,
                                    Append(flushed, Backslash))
               [] c \in {"[", "]"} ->
                    SecondPass(shell, k + 1, j, FALSE, pcre)
               [] OTHER ->
                    IF escaped
                    THEN SecondPass(shell, k + 1, k, FALSE,
                                    pcre \o strncpy(shell, j, k - j - 1))
                    ELSE SecondPass(shell, k + 1, j, FALSE, pcre)

(* "(?!\n)$" *)
Lookahead == <<"(", "?", "!", Newline, ")", "$">>

(* shell2pcre(shell): the size malloc() is asked for and the string        *)
(* written, which takes one more byte for its NUL                          *)
shell2pcre(shell) ==
    [size |-> FirstPass(shell, 1, FALSE, 0) + 7,
     pcre |-> <<"^">> \o SecondPass(shell, 1, 1, FALSE, <<>>) \o Lookahead]

Overflows(shell) == Len(shell2pcre(shell).pcre) + 1 > shell2pcre(shell).size

(* What a write past the end of the buffer can do: nothing anyone notices, *)
(* or a heap the allocator finds corrupted when the buffer is freed        *)
SIGABRT == "SIGABRT"

HeapOutcomes(shell) ==
    IF Overflows(shell) THEN {"unnoticed", "abort"} ELSE {"unnoticed"}

(* rbh_filter_compare_regex_new *)
filter_compare_regex_new(op, field, regex, regex_options, id) ==
    [op |-> op, p |-> "", kids |-> <<>>, id |-> id,
     field |-> field, value |-> regex, options |-> regex_options]

shell_regex2filter(pred, shell_regex, regex_options, outcome) ==
    IF outcome = "abort" THEN Failed(SIGABRT)
    ELSE filter_compare_regex_new("RBH_FOP_REGEX",
                                  predicate2filter_field(pred),
                                  shell2pcre(shell_regex).pcre,
                                  regex_options, 1)

(* The globs of the documentation *)
ExampleGlobs ==
    {<<"*", ".", "t", "x", "t">>, <<"a", "?", "c">>,
     <<"(", "l", "i", "t", "e", "r", "a", "l", ")">>,
     <<"[", "*", "]">>, <<"[", ".", "]">>}

GlobAlphabet == {"*", "?", ".", "(", "[", "]", Backslash, "a"}

Globs == Strings(GlobAlphabet, MaxGlob) \cup ExampleGlobs

NameInit ==
    /\ NoCommandLine
    /\ predicate \in {"-name", "-iname"}
    /\ argument \in Globs
    /\ now = 0
    /\ usermask = 0
    /\ revision = "umask"
    /\ pc = "predicate"
    /\ retval = NULL
    /\ status = Running

(* parse_predicate(): case PRED_NAME *)
PredName ==
    /\ pc = "predicate"
    /\ predicate = "-name"
    /\ \E outcome \in HeapOutcomes(argument) :
        Compiled(shell_regex2filter(predicate, argument, "0", outcome))

(* parse_predicate(): case PRED_INAME *)
PredIname ==
    /\ pc = "predicate"
    /\ predicate = "-iname"
    /\ \E outcome \in HeapOutcomes(argument) :
        Compiled(shell_regex2filter(predicate, argument,
                                    "RBH_RO_CASE_INSENSITIVE", outcome))

NameNext == PredName \/ PredIname

NameSpec == NameInit /\ [][NameNext]_vars

----------------------------------------------------------------------------
(* What the claims on the name predicates are stated with *)

(* The body of the regular expression a glob stands for: unescaped * is    *)
(* .*, unescaped ? is ., an unescaped metacharacter gets a backslash, and  *)
(* every other character is copied                                         *)
RECURSIVE Body(_, _, _)
Body(shell, k, escaped) ==
    IF k > Len(shell) THEN <<>>
    ELSE LET c == shell[k]
             rest(e) == Body(shell, k + 1, e)
         IN  CASE c = Backslash -> <<c>> \o rest(~escaped)
               [] c = "*" /\ ~escaped -> <<".", "*">> \o rest(FALSE)
               [] c = "?" /\ ~escaped -> <<".">> \o rest(FALSE)
               [] c \in Metacharacters /\ ~escaped ->
                    <<Backslash, c>> \o rest(FALSE)
               [] OTHER -> <<c>> \o rest(FALSE)

(* The regular expressions made of characters, escaped characters and      *)
(* dots, each possibly starred, as the PCRE library matches them against   *)
(* the whole of a name (a dot matches anything but a newline)              *)
AtomLen(re) == IF re[1] = Backslash THEN 2 ELSE 1

AtomMatches(re, c) ==
    IF re[1] = Backslash THEN c = re[2]
    ELSE IF re[1] = "." THEN c # Newline
    ELSE c = re[1]

RECURSIVE MatchHere(_, _)
MatchHere(re, name) ==
    IF re = <<>> THEN name = <<>>
    ELSE LET n == AtomLen(re)
             starred == Len(re) > n /\ re[n + 1] = "*"
             after == SubSeq(re, n + (IF starred THEN 2 ELSE 1), Len(re))
         IN  IF starred
             THEN \E k \in 0..Len(name) :
                     /\ \A j \in 1..k : AtomMatches(re, name[j])
                     /\ MatchHere(after, SubSeq(name, k + 1, Len(name)))
             ELSE /\ name # <<>>
                  /\ AtomMatches(re, name[1])
                  /\ MatchHere(after, Tail(name))

(* ^body(?!\n)$ matches name *)
PcreMatches(pcre, name) ==
    /\ Len(pcre) >= 7
    /\ pcre[1] = "^"
    /\ SubSeq(pcre, Len(pcre) - 5, Len(pcre)) = Lookahead
    /\ MatchHere(SubSeq(pcre, 2, Len(pcre) - 6), name)

EndsWith(name, suffix) ==
    /\ Len(name) >= Len(suffix)
    /\ SubSeq(name, Len(name) - Len(suffix) + 1, Len(name)) = suffix

(* Names around the suffix .txt *)
TxtNames ==
    {stem \o ext :
        stem \in Strings({"a", ".", Newline}, 2),
        ext \in {<<>>, <<".", "t", "x", "t">>, <<"a", "t", "x", "t">>,
                 <<"t", "x", "t">>, <<".", "t", "x", "t", "a">>,
                 <<".", "t", "x", "t", Newline>>, <<".", "t", "x">>}}

GlobOf(a) == pc = "done" /\ argument = a

(* C25: for every glob the regular expression is ^, the body of the glob   *)
(* and the lookahead (?!\n)$; *.txt matches exactly the names ending in     *)
(* .txt, a?c matches abc but neither ac nor abbc, and (literal) matches    *)
(* the name (literal).                                                     *)
C25_GlobTranslation ==
    pc # "predicate" =>
        /\ pc = "done"
        /\ retval.value = <<"^">> \o Body(argument, 1, FALSE) \o Lookahead
        /\ GlobOf(<<"*", ".", "t", "x", "t">>) =>
            \A name \in TxtNames :
                PcreMatches(retval.value, name)
                    <=> (EndsWith(name, <<".", "t", "x", "t">>)
                         /\ ~Has(name, Newline))
        /\ GlobOf(<<"a", "?", "c">>) =>
            /\ PcreMatches(retval.value, <<"a", "b", "c">>)
            /\ ~PcreMatches(retval.value, <<"a", "c">>)
            /\ ~PcreMatches(retval.value, <<"a", "b", "b", "c">>)
        /\ GlobOf(<<"(", "l", "i", "t", "e", "r", "a", "l", ")">>) =>
            /\ PcreMatches(retval.value,
                       <<"(", "l", "i", "t", "e", "r", "a", "l", ")">>)
            /\ ~PcreMatches(retval.value, <<"l", "i", "t", "e", "r", "a", "l">>)

(* C26: for every glob the size computed by the first pass is the number   *)
(* of bytes the second pass writes (anchor, body, lookahead and NUL), so   *)
(* nothing is written past the end of the buffer, whether the glob has a   *)
(* dot, escaped or not.                                                    *)
C26_BufferLength ==
    pc # "predicate" =>
        /\ shell2pcre(argument).size = Len(shell2pcre(argument).pcre) + 1
        /\ ~Overflows(argument)
        /\ pc = "done"

(* part occurs in string, its characters next to one another *)
Contains(string, part) ==
    \E k \in 0..(Len(string) - Len(part)) :
        SubSeq(string, k + 1, k + Len(part)) = part

(* C27: a bracket expression of the glob, from an unescaped [ to the       *)
(* first ] after it, is found unchanged in the regular expression          *)
(* whatever it holds: [*] stays [*] and [.] stays [.].                     *)
C27_BracketVerbatim ==
    pc = "done" =>
        /\ \A a \in 1..Len(argument), b \in 1..Len(argument) :
            (/\ a < b
             /\ argument[a] = "["
             /\ argument[b] = "]"
             /\ \A k \in (a + 1)..(b - 1) : argument[k] # "]"
             /\ \A k \in 1..b : argument[k] # Backslash) =>
                Contains(retval.value, SubSeq(argument, a, b))
        /\ GlobOf(<<"[", "*", "]">>) =>
            retval.value = <<"^", "[", "*", "]">> \o Lookahead
        /\ GlobOf(<<"[", ".", "]">>) =>
            retval.value = <<"^", "[", ".", "]">> \o Lookahead

(* The body of the regular expression when each backslash is read with the *)
(* character after it: an escaped wildcard or metacharacter keeps its      *)
(* backslash and is not translated, two backslashes stay two and the       *)
(* character after them is read afresh, a backslash before any other       *)
(* character goes and the character stays                                  *)
RECURSIVE Paired(_, _)
Paired(shell, k) ==
    IF k > Len(shell) THEN <<>>
    ELSE LET c == shell[k]
             next == Char(shell, k + 1)
         IN  IF c = Backslash
             THEN IF next \in {Backslash, "*", "?"} \cup Metacharacters
                  THEN <<c, next>> \o Paired(shell, k + 2)
                  ELSE <<next>> \o Paired(shell, k + 2)
             ELSE CASE c = "*" -> <<".", "*">> \o Paired(shell, k + 1)
                    [] c = "?" -> <<".">> \o Paired(shell, k + 1)
                    [] c \in Metacharacters ->
                         <<Backslash, c>> \o Paired(shell, k + 1)
                    [] OTHER -> <<c>> \o Paired(shell, k + 1)

(* Every backslash that is read as an escape has a character after it      *)
(* that is not a bracket                                                   *)
RECURSIVE EscapesCharacters(_, _)
EscapesCharacters(shell, k) ==
    IF k > Len(shell) THEN TRUE
    ELSE IF shell[k] = Backslash
    THEN /\ Char(shell, k + 1) \notin {"", "[", "]"}
         /\ EscapesCharacters(shell, k + 2)
    ELSE EscapesCharacters(shell, k + 1)

(* C28: a backslash takes the special meaning from the one character after *)
(* it: an escaped wildcard or metacharacter is emitted with its backslash, *)
(* a backslash before an ordinary character is dropped, two backslashes    *)
(* are emitted as they are and the character after them is not escaped.    *)
C28_BackslashEscapesOne ==
    (pc = "done" /\ EscapesCharacters(argument, 1)) =>
        retval.value = <<"^">> \o Paired(argument, 1) \o Lookahead

(* \\*a: the star after two backslashes is a wildcard *)
C28_Witness ==
    /\ GlobOf(<<Backslash, Backslash, "*", "a">>)
    /\ retval.value
        = <<"^", Backslash, Backslash, ".", "*", "a">> \o Lookahead

----------------------------------------------------------------------------
(* The size predicate.  filesize2filter() is called by parse_predicate()   *)
(* and exercised by the size tests; it is modelled from the grammar of     *)
(* its argument, [+|-]N<unit>, and from what those tests expect: sizes are *)
(* counted in units, rounded up.                                           *)

(* The most digits of N *)
MaxSizeDigits == 2

(* The bytes of a unit; 0 for a character that is no unit *)
unit_size(c) ==
    CASE c = "k" -> 1024
      [] c = "M" -> 1024 * 1024
      [] OTHER -> 0

(* A comparison of the size with a number of bytes *)
filter_compare_size_new(op, value, id) ==
    [op |-> op, p |-> "", kids |-> <<>>, id |-> id,
     field |-> predicate2filter_field("-size"), value |-> value]

(* -size taken as a comparison with N units, without rounding *)
filesize2filter_exact(filesize) ==
    LET sign == Char(filesize, 1)
        rest == IF sign \in {"+", "-"} THEN Tail(filesize) ELSE filesize
        scan == ScanDigits(rest, 1, 0)
        unit == unit_size(Char(rest, scan.pos))
        bytes == scan.value * unit
    IN  IF scan.pos = 1 \/ scan.pos # Len(rest) \/ unit = 0
        THEN Failed(EX_USAGE)
        ELSE CASE sign = "+" ->
                    filter_compare_size_new("RBH_FOP_STRICTLY_GREATER",
                                            bytes, 1)
               [] sign = "-" ->
                    filter_compare_size_new("RBH_FOP_STRICTLY_LOWER",
                                            bytes, 1)
               [] OTHER ->
                    filter_and(
                        filter_compare_size_new("RBH_FOP_STRICTLY_GREATER",
                                                bytes - 1, 1),
                        filter_compare_size_new("RBH_FOP_STRICTLY_LOWER",
                                                bytes + 1, 2),
                        3)

(* filesize2filter(): +N is more than N units, -N at most N - 1 units, N   *)
(* more than N - 1 and at most N units; anything but digits and one unit   *)
(* letter after the sign is a usage error                                  *)
filesize2filter(filesize) ==
    LET sign == Char(filesize, 1)
        rest == IF sign \in {"+", "-"} THEN Tail(filesize) ELSE filesize
        scan == ScanDigits(rest, 1, 0)
        unit == unit_size(Char(rest, scan.pos))
        size == scan.value
    IN  IF scan.pos = 1 \/ scan.pos # Len(rest) \/ unit = 0
        THEN Failed(EX_USAGE)
        ELSE CASE sign = "+" ->
                    filter_compare_size_new("RBH_FOP_STRICTLY_GREATER",
                                            size * unit, 1)
               [] sign = "-" ->
                    filter_compare_size_new("RBH_FOP_STRICTLY_LOWER",
                                            (size - 1) * unit + 1, 1)
               [] OTHER ->
                    filter_and(
                        filter_compare_size_new("RBH_FOP_STRICTLY_GREATER",
                                                (size - 1) * unit, 1),
                        filter_compare_size_new("RBH_FOP_STRICTLY_LOWER",
                                                size * unit + 1, 2),
                        3)

(* The arguments -size is run on *)
SizeArgs ==
    {sign \o digits \o unit :
        sign \in {<<>>, <<"+">>, <<"-">>},
        digits \in Strings({"0", "1", "2", "3"}, MaxSizeDigits),
        unit \in {<<"k">>, <<"M">>, <<"x">>, <<"k", "k">>}}

SizeInit ==
    /\ NoCommandLine
    /\ predicate = "-size"
    /\ argument \in SizeArgs
    /\ now = 0
    /\ usermask = 0
    /\ revision = "umask"
    /\ pc = "predicate"
    /\ retval = NULL
    /\ status = Running

(* parse_predicate(): case PRED_SIZE *)
PredSize ==
    /\ pc = "predicate"
    /\ predicate = "-size"
    /\ Compiled(filesize2filter(argument))

SizeNext == PredSize

SizeSpec == SizeInit /\ [][SizeNext]_vars

(* The sizes of the files of the size tests, and sizes around the units *)
KiB == 1024
MiB == 1024 * 1024

FileSizes ==
    {0, 1, KiB - 1, KiB, KiB + 1, KiB + 13, 2 * KiB, 2 * KiB + 1, 3 * KiB,
     MiB - 1, MiB, MiB + 1, 2 * MiB, 2 * MiB + 1, 3 * MiB, 4 * MiB}

(* size / unit, rounded up *)
Ceil(size, unit) == (size + unit - 1) \div unit

SizeOf(a) == pc = "done" /\ argument = a

----------------------------------------------------------------------------
(* find() and _find() taken alone: the backends are drained one after the  *)
(* other, one result of rbh_mut_iter_next() at a time                      *)

(* The results an iterator returns before it must end *)
MaxResults == 3

FindActions == {"ACT_PRINT", "ACT_COUNT", "ACT_QUIT", "ACT_DELETE"}

(* The actions the switch of _find() has a case for *)
Implemented == {"ACT_PRINT", "ACT_PRINT0", "ACT_LS", "ACT_COUNT", "ACT_QUIT"}

Errnos == {"0", "EAGAIN", "ENODATA", "EIO"}

Fsentries == {"a", "b"}

NoFsentry == "NULL"

(* What one call of rbh_mut_iter_next() leaves: an entry, or NULL and     *)
(* errno; errno is not read after a call that returned an entry          *)
Results ==
    [fsentry : Fsentries, errno : {"0"}]
        \cup [fsentry : {NoFsentry}, errno : Errnos]

(* The sources keep three revisions of what destroys the backends: the    *)
(* destructor of rbh-find.c, run by every exit; the macros of backend.h,  *)
(* which _find() calls; and plain error() and error_at_line() in the      *)
(* revision of _find() that comes with the callbacks                      *)
FindRevisions == {"destructor", "macros", "core"}

(* exit_backends(), ctx_finish(): rbh_backend_destroy() on every backend *)
exit_backends ==
    [b \in 1..backend_count |-> destroyed[b] + 1]

(* exit(), or error() with a status: the destructor runs if there is one *)
Exit(to, code) ==
    /\ pc' = to
    /\ status' = code
    /\ destroyed' = IF revision = "destructor" THEN exit_backends
                    ELSE destroyed

(* error_at_line() in _find(), through ERROR_AT_LINE in the revision that *)
(* has the macros                                                         *)
ERROR_AT_LINE(code) ==
    /\ pc' = "fatal"
    /\ status' = code
    /\ destroyed' = IF revision \in {"destructor", "macros"}
                    THEN exit_backends
                    ELSE destroyed

FindInit ==
    /\ backend_count \in 0..MaxBackends
    /\ argc = backend_count
    /\ argv = [k \in 1..backend_count |-> "uri"]
    /\ pc = "find"
    /\ i = backend_count
    /\ token = "CLT_ACTION"
    /\ stack = <<>>
    /\ retval = NULL
    /\ did_something = FALSE
    /\ sorts = <<>>
    /\ calls = <<>>
    /\ nalloc = 0
    /\ filters = <<>>
    /\ status = Running
    /\ predicate = "-name"
    /\ argument = <<>>
    /\ now = 0
    /\ usermask = 0
    /\ revision \in FindRevisions
    /\ find_action \in FindActions
    /\ backend_index = 0
    /\ fsentries = <<>>
    /\ errno = "0"
    /\ count = 0
    /\ total = 0
    /\ acted = <<>>
    /\ destroyed = [b \in 1..backend_count |-> 0]
    /\ action_file = NoFile

(* What find() leaves alone of the command line and of its parse *)
command_line ==
    <<argc, argv, backend_count, i, token, stack, retval, sorts, calls,
      nalloc, filters>>

(* find(): the for loop reaches backend k, or ends *)
ForBackend(k) ==
    /\ backend_index' = k
    /\ pc' = IF k <= backend_count THEN "filter" ELSE "found"

(* find(): did_something is set and the loop entered *)
FindEnter ==
    /\ pc = "find"
    /\ did_something' = TRUE
    /\ ForBackend(1)
    /\ UNCHANGED <<compiler, command_line, find_action, action_file, status,
                   destroyed, fsentries, errno, count, total, acted>>

(* _find(): rbh_backend_filter() returns the iterator, which has returned *)
(* nothing yet, or NULL                                                  *)
BackendFilter ==
    /\ pc = "filter"
    /\ count' = 0
    /\ fsentries' = <<>>
    /\ acted' = <<>>
    /\ \E e \in Errnos, ok \in BOOLEAN :
        /\ errno' = e
        /\ IF ok
           THEN /\ pc' = "next"
                /\ UNCHANGED <<status, destroyed>>
           ELSE ERROR_AT_LINE(EXIT_FAILURE)
    /\ UNCHANGED <<compiler, command_line, find_action, action_file,
                   did_something, backend_index, total>>

(* rbh_mut_iter_next() is called with errno = 0 and returns r; the        *)
(* iterator ends within MaxResults results                                *)
iter_next(r) ==
    /\ pc = "next"
    /\ Len(fsentries) < MaxResults
        \/ (r.fsentry = NoFsentry /\ r.errno # "EAGAIN")
    /\ fsentries' = Append(fsentries, r)
    /\ errno' = r.errno

(* A NULL that left errno alone taken for the end of the data as well *)
no_more_data_or_none(e) == e \in {"ENODATA", "0"}

(* errno after the loop is ENODATA *)
no_more_data(e) == e = "ENODATA"

(* The inner loop left on the first NULL, whatever errno is *)
try_again_never(fsentry, e) == FALSE

(* while (fsentry == NULL && errno == EAGAIN) *)
try_again(fsentry, e) == fsentry = NoFsentry /\ e = "EAGAIN"

(* _find(): the inner loop calls rbh_mut_iter_next() again *)
IterAgain ==
    /\ \E r \in Results :
        /\ iter_next(r)
        /\ try_again(r.fsentry, r.errno)
    /\ UNCHANGED <<compiler, command_line, find_action, action_file,
                   did_something, status, pc, backend_index, count, total,
                   acted, destroyed>>

(* _find(): the action is run on the entry *)
IterEntry ==
    /\ \E r \in Results :
        /\ iter_next(r)
        /\ r.fsentry # NoFsentry
        /\ acted' = Append(acted, r.fsentry)
    /\ count' = IF find_action = "ACT_COUNT" THEN count + 1 ELSE count
    /\ CASE find_action = "ACT_QUIT" -> Exit("exit", EXIT_SUCCESS)
         [] find_action \notin Implemented -> Exit("fatal", EXIT_FAILURE)
         [] OTHER -> UNCHANGED <<pc, status, destroyed>>
    /\ UNCHANGED <<compiler, command_line, find_action, action_file,
                   did_something, backend_index, total>>

(* _find(): the loop is left on a NULL that is not to be tried again;    *)
(* error_at_line() unless errno is ENODATA, else the count is returned    *)
(* and added to the count of find()                                       *)
IterBreak ==
    /\ \E r \in Results :
        /\ iter_next(r)
        /\ r.fsentry = NoFsentry
        /\ ~try_again(r.fsentry, r.errno)
        /\ IF ~no_more_data(r.errno)
           THEN /\ ERROR_AT_LINE(EXIT_FAILURE)
                /\ UNCHANGED <<backend_index, total>>
           ELSE /\ total' = total + count
                /\ ForBackend(backend_index + 1)
                /\ UNCHANGED <<status, destroyed>>
    /\ UNCHANGED <<compiler, command_line, find_action, action_file,
                   did_something, count, acted>>

FindNext ==
    \/ FindEnter
    \/ BackendFilter
    \/ IterAgain
    \/ IterEntry
    \/ IterBreak

FindSpec == FindInit /\ [][FindNext]_vars

----------------------------------------------------------------------------
(* The end of an iteration *)

(* What the last call of rbh_mut_iter_next() returned *)
LastResult == fsentries[Len(fsentries)]

(* The entries the action was run on, counted if the action counts *)
Counted == IF find_action = "ACT_COUNT" THEN Len(acted) ELSE 0

(* C30: when rbh_mut_iter_next() returns NULL with ENODATA the iteration  *)
(* ends normally and _find() returns its count: the process runs on, with *)
(* the next backend or back in the caller of find(), no entry is acted    *)
(* on, and the count of find() grows by the number of entries counted.    *)
(* When it returns NULL with any errno but ENODATA and EAGAIN the process *)
(* has exited with EXIT_FAILURE.  Once the process has exited so, no step *)
(* changes anything: no entry is acted on, no backend filtered, no token  *)
(* read.                                                                  *)
C30_IterationEnd ==
    /\ [](fsentries # <<>> /\ LastResult.fsentry = NoFsentry =>
            /\ LastResult.errno = "ENODATA" =>
                /\ status = Running
                /\ pc = IF backend_index <= backend_count
                        THEN "filter" ELSE "found"
                /\ count = Counted
            /\ LastResult.errno \notin {"ENODATA", "EAGAIN"} =>
                /\ pc = "fatal"
                /\ status = EXIT_FAILURE)
    /\ [][/\ pc = "fatal" => UNCHANGED vars
          /\ fsentries' = Append(fsentries, [fsentry |-> NoFsentry,
                                              errno |-> "ENODATA"])
                => /\ total' = total + count
                   /\ backend_index' = backend_index + 1
                   /\ UNCHANGED <<count, acted>>]_vars

(* The first backend ended with ENODATA after one entry was counted, and *)
(* the second failed with EIO after another: the process has exited     *)
C30_Witness ==
    /\ pc = "fatal"
    /\ status = EXIT_FAILURE
    /\ find_action = "ACT_COUNT"
    /\ backend_index = 2
    /\ total = 1
    /\ acted = <<"b">>
    /\ LastResult = [fsentry |-> NoFsentry, errno |-> "EIO"]

----------------------------------------------------------------------------
(* EAGAIN *)

(* find() under the scheduling of a sequential process: while a step of   *)
(* find() is possible one is taken.  The iterator ends within MaxResults  *)
(* results, so it does not answer EAGAIN forever.                         *)
FindLive == FindSpec /\ WF_vars(FindNext)

(* The entries among the results the iterator has returned, in order *)
RECURSIVE Returned(_)
Returned(results) ==
    IF results = <<>> THEN <<>>
    ELSE IF Head(results).fsentry = NoFsentry THEN Returned(Tail(results))
    ELSE <<Head(results).fsentry>> \o Returned(Tail(results))

TryAgain == [fsentry |-> NoFsentry, errno |-> "EAGAIN"]

(* _find() is over for backend k: it returned or the process exited *)
Over(k) == pc \in {"fatal", "exit", "found"} \/ backend_index > k

(* C31: the entries the action was run on are the entries the iterator    *)
(* returned, each once and in order, whatever NULL/EAGAIN results lie     *)
(* between them; after a NULL/EAGAIN _find() is still in its loop and the *)
(* step that received it changed nothing but errno; and every _find()     *)
(* that has started is eventually over.                                   *)
C31_TryAgainInvisible ==
    /\ [](acted = Returned(fsentries))
    /\ []((fsentries # <<>> /\ LastResult = TryAgain) =>
            (pc = "next" /\ status = Running))
    /\ [][fsentries' = Append(fsentries, TryAgain) =>
            UNCHANGED <<acted, count, total, backend_index, pc, status>>]_vars
    /\ \A k \in 1..MaxBackends :
        (pc = "filter" /\ backend_index = k) ~> Over(k)

(* Two entries were returned with a NULL/EAGAIN between them *)
C31_Witness ==
    /\ fsentries = <<[fsentry |-> "a", errno |-> "0"], TryAgain,
                     [fsentry |-> "b", errno |-> "0"]>>
    /\ acted = <<"a", "b">>
    /\ find_action = "ACT_PRINT"
    /\ pc = "next"

----------------------------------------------------------------------------
(* The backends at exit *)

(* C32: when the process has exited on a failure of rbh_backend_filter() *)
(* or of rbh_mut_iter_next(), every backend has been destroyed; and no   *)
(* backend is ever destroyed twice.                                      *)
C32_BackendsDestroyed ==
    /\ (pc = "fatal" /\ find_action \in Implemented) =>
            \A b \in 1..backend_count : destroyed[b] = 1
    /\ \A b \in 1..backend_count : destroyed[b] <= 1

----------------------------------------------------------------------------
(* The release of the filters *)

(* The pointers free() is called on when the process ends: the filter    *)
(* parse_expression() returned, by main() before it returns, and every   *)
(* pointer recorded in the arena, by the destructor exit_filters()       *)
Released ==
    IF pc = "done" THEN <<retval>> \o filters
    ELSE IF Terminated THEN filters
    ELSE <<>>

(* How many of the pointers of a sequence are the node allocated id-th *)
Pointers(nodes, id) ==
    Cardinality({k \in 1..Len(nodes) :
                    nodes[k].op # "null" /\ nodes[k].id = id})

(* Every node is recorded in the arena as a child at most once, and the *)
(* filter returned to main() is not recorded                            *)
RecordedOnce ==
    /\ \A id \in 1..nalloc : Pointers(filters, id) <= 1
    /\ (pc \in {"ret_main", "done"} /\ retval.op # "null") =>
            Pointers(filters, retval.id) = 0

(* C33 as stated, a process that -quit ends with exit(0) counted among   *)
(* the normal terminations: no node is freed twice, and when the process *)
(* has ended with EXIT_SUCCESS every node allocated has been freed.      *)
C33_ReleasedOnce ==
    /\ RecordedOnce
    /\ \A id \in 1..nalloc : Pointers(Released, id) <= 1
    /\ status = EXIT_SUCCESS =>
            \A id \in 1..nalloc : Pointers(Released, id) = 1

(* C33 amended: no node is freed twice, and when main() has returned     *)
(* every node allocated has been freed once; when -quit or an error has  *)
(* ended the process the running filter of each level still active is    *)
(* not freed.                                                            *)
C33_ReleasedOnceAtReturn ==
    /\ RecordedOnce
    /\ \A id \in 1..nalloc : Pointers(Released, id) <= 1
    /\ pc = "done" => \A id \in 1..nalloc : Pointers(Released, id) = 1
    /\ pc \in {"exit", "fatal"} =>
            \A k \in 1..Len(stack) :
                stack[k].filter.op # "null" =>
                    Pointers(Released, stack[k].filter.id) = 0

(* main() has returned after an expression with a negation, a group and *)
(* a -o: five nodes were allocated                                      *)
C33_Witness ==
    /\ pc = "done"
    /\ retval.op = "or"
    /\ nalloc = 5
    /\ \E k \in 1..Len(Expr) : Expr[k] = "!"
    /\ \E k \in 1..Len(Expr) : Expr[k] = "("

----------------------------------------------------------------------------
(* The exit status of usage errors *)

(* C34: every error of the parser, all of them usage errors (a URI after *)
(* the expression, a binary operator with nothing before it, a missing   *)
(* argument, a missing ")", empty parentheses, too many ")", no URI),    *)
(* ends the process with EX_USAGE.                                       *)
C34_UsageErrorStatus == pc = "fatal" => status = EX_USAGE

----------------------------------------------------------------------------
(* core_pre_action() taken alone: the file of a file action is opened *)

(* The tokens after the URI *)
MaxTokens == 3

FileActions == {"ACT_FLS", "ACT_FPRINT", "ACT_FPRINT0"}

ActionTokens == {"-fls", "-fprint", "-fprint0", "-print"}

str2file_action(string) ==
    CASE string = "-fls" -> "ACT_FLS"
      [] string = "-fprint" -> "ACT_FPRINT"
      [] string = "-fprint0" -> "ACT_FPRINT0"
      [] OTHER -> "ACT_PRINT"

(* argv[argc], the null pointer that ends the argument list *)
NullPointer == "(null)"

SIGSEGV == "SIGSEGV"

(* ctx->argv[index]; the list is argv[0] to argv[argc - 1] *)
Argv(index) == IF index < argc THEN argv[index + 1] ELSE NullPointer

(* What fopen(filename, "w") may do: return a file or NULL; on a null    *)
(* pointer the behaviour is undefined, NULL with EFAULT or a crash       *)
fopen(filename) ==
    IF filename = NullPointer THEN {"NULL", "SIGSEGV"} ELSE {"open", "NULL"}

(* index is the index of the action token, the last of the list or not *)
PreInit ==
    /\ backend_count = 1
    /\ argc \in 2..(1 + MaxTokens)
    /\ argv \in [1..argc -> ActionTokens \cup {"file", "uri"}]
    /\ \A k \in 1..argc : argv[k] = "uri" <=> k = 1
    /\ i \in 1..(argc - 1)
    /\ argv[i + 1] \in ActionTokens
    /\ find_action = str2file_action(argv[i + 1])
    /\ pc = "pre_action"
    /\ token = "CLT_ACTION"
    /\ stack = <<>>
    /\ retval = NULL
    /\ did_something = FALSE
    /\ sorts = <<>>
    /\ calls = <<>>
    /\ nalloc = 0
    /\ filters = <<>>
    /\ status = Running
    /\ predicate = "-name"
    /\ argument = <<>>
    /\ now = 0
    /\ usermask = 0
    /\ revision = "core"
    /\ backend_index = 0
    /\ fsentries = <<>>
    /\ errno = "0"
    /\ count = 0
    /\ total = 0
    /\ acted = <<>>
    /\ destroyed = <<0>>
    /\ action_file = NoFile

(* if (index >= ctx->argc) *)
MissingFilename(index) == index >= argc

(* core_pre_action(ctx, index, action): 1 is returned for a file action *)
(* whose file is open, 0 for any other action                           *)
CorePreAction ==
    /\ pc = "pre_action"
    /\ IF find_action \notin FileActions
       THEN /\ pc' = "find"
            /\ UNCHANGED <<status, action_file>>
       ELSE IF MissingFilename(i)
       THEN /\ Fatal(EX_USAGE)
            /\ UNCHANGED action_file
       ELSE \E file \in fopen(Argv(i + 1)) :
            /\ action_file' = [filename |-> Argv(i + 1), file |-> file]
            /\ CASE file = "open" ->
                        /\ pc' = "find"
                        /\ UNCHANGED status
                 [] file = "NULL" -> Fatal(EXIT_FAILURE)
                 [] OTHER -> Fatal(SIGSEGV)
    /\ UNCHANGED <<compiler, command_line, find_action, did_something,
                   backend_index, fsentries, errno, count, total, acted,
                   destroyed>>

PreNext == CorePreAction

PreSpec == PreInit /\ [][PreNext]_vars

(* C35, for the file actions: when the token of a file action is the last *)
(* of the command line, core_pre_action() ends the process with EX_USAGE  *)
(* and has read no file name and opened no file.                          *)
C35_MissingArgument ==
    (/\ pc # "pre_action"
     /\ find_action \in FileActions
     /\ i + 1 >= argc) =>
        /\ pc = "fatal"
        /\ status = EX_USAGE
        /\ action_file = NoFile

----------------------------------------------------------------------------
(* The classes a clause leaves alone *)

(* C36: the last clause of an accepted symbolic mode, whatever its       *)
(* operator, leaves the r, w and x bits of the classes its who does not  *)
(* name as the clauses before it left them (u=rwx,g=r keeps rwx for the  *)
(* user), and a clause with no permission letter leaves the whole mode   *)
(* unchanged.                                                            *)
C36_OtherClassesUnchanged ==
    /\ SymbolicDone =>
        LET who == WhoOf(LastClause)
            others == BitClear(Octal(0, 7, 7, 7), ClassMask(who))
        IN  /\ who # <<>> =>
                BitAnd(retval.value, others) = BitAnd(Prior, others)
            /\ PermsOf(LastClause) = <<>> => retval.value = Prior
    /\ ModeOf(<<"u", "=", "r", "w", "x", ",", "g", "=", "r">>) =>
        BitAnd(retval.value, Octal(0, 7, 0, 0)) = Octal(0, 7, 0, 0)

----------------------------------------------------------------------------
(* The values a filter made of comparisons compares its field against *)
ComparedValues(f) ==
    IF f.kids = <<>> THEN {f.value}
    ELSE {f.kids[k].value : k \in 1..Len(f.kids)}

(* C37: the reference instant of a time filter never wraps around: for     *)
(* every accepted N the values the filter compares against lie between 0   *)
(* and now, and a +N whose duration exceeds now is compared against 0 (and *)
(* so matches nothing) rather than against a huge unsigned value.           *)
C37_ReferenceInstantNeverWraps ==
    (/\ pc = "done"
     /\ AcceptedCount(argument, Unit(predicate))) =>
        /\ \A v \in ComparedValues(retval) : 0 <= v /\ v <= now
        /\ (/\ Sign(argument) = "+"
            /\ Count(argument) * Unit(predicate) > now) =>
                /\ retval.value = 0
                /\ \A t \in Timestamps({0, now}) : ~CompareMatches(retval, t)

----------------------------------------------------------------------------
(* C38: the sort list handed to an action, explicit or default, is the     *)
(* sequence of the sort entries of the tokens before it, in command-line   *)
(* order, whatever the nesting: a return from a nested parse level leaves  *)
(* the list alone, and the calls already made are not changed by the sort  *)
(* tokens read after them.                                                 *)
C38_SortsBeforeAction ==
    /\ [](sorts = SortsOf(Expr))
    /\ [][/\ Len(calls') >= Len(calls)
          /\ SubSeq(calls', 1, Len(calls)) = calls
          /\ \A k \in (Len(calls) + 1)..Len(calls') :
                calls'[k].sorts = SortsOf(Expr)
          /\ Len(stack') < Len(stack) => sorts' = sorts]_vars

(* a print, then on the right of -o a sort directive and another print *)
C38_Witness ==
    /\ pc = "done"
    /\ backend_count = 1
    /\ Len(calls) = 2
    /\ calls[1].sorts = <<>>
    /\ Len(calls[2].sorts) = 1
    /\ Expr[2] = "-o"

----------------------------------------------------------------------------
(* left_filter or negated_left_filter of some loop iteration *)
Temporary(f) == f.op \in {"and", "not"} /\ f.id = 0

(* C39: the two temporary nodes of a loop iteration only go downward, as   *)
(* the context of a nested parse or as the filter of an action: the        *)
(* context of every nested level is one of them (built on allocated nodes  *)
(* and on the context of the level above), and neither the running filter  *)
(* of a level, nor the filter a level returned, nor a node recorded in the *)
(* arena is or holds one.                                                  *)
C39_TemporariesGoDownward ==
    /\ \A k \in 1..Len(stack) :
        /\ OnHeap(stack[k].filter)
        /\ k = 1 => stack[k].ctx = NULL
        /\ k > 1 =>
            /\ Temporary(stack[k].ctx)
            /\ stack[k].ctx \in
                {left_filter(stack[k - 1].filter, stack[k - 1].ctx),
                 negated_left_filter(stack[k - 1].filter, stack[k - 1].ctx)}
    /\ OnHeap(retval)
    /\ \A k \in 1..Len(filters) : OnHeap(filters[k])
    /\ \A k \in 1..Len(calls) :
        \/ calls[k].by_main /\ OnHeap(calls[k].filter)
        \/ /\ ~calls[k].by_main
           /\ Temporary(calls[k].filter)
           /\ OnHeap(calls[k].filter.kids[1])

(* -name a -o -name b -print: the print ran on And(running filter,        *)
(* Not(And(left side, NULL))) and main() got Or(left side, right side)    *)
C39_Witness ==
    /\ pc = "done"
    /\ retval.op = "or"
    /\ Len(calls) >= 1
    /\ Temporary(calls[1].filter)
    /\ calls[1].filter.kids[1].op = "and"
    /\ calls[1].filter.kids[2].op = "not"
    /\ Len(filters) >= 4

----------------------------------------------------------------------------
(* Termination of the parse *)

(* The expression's tokens in the runs that are followed to their end *)
MaxLiveArgs == 5

ParseInit ==
    /\ Init
    /\ argc <= backend_count + MaxLiveArgs

(* The process runs until it ends: a step is taken as long as one can be *)
ParseLive == ParseInit /\ [][Next]_vars /\ WF_vars(Next)

(* A call of parse_expression() has returned to its caller *)
Returning == pc \in {"ret_main", "ret_or", "ret_paren"}

(* The index never decreases; an iteration of the loop reads one token (or *)
(* two, with an argument) that no iteration has read, and advances the     *)
(* index past it unless it ends the level or the process; a ")" ends the   *)
(* innermost level only and is stepped over by the level that opened the   *)
(* group; at the return of main() the index is argc.                       *)
TokensReadOnce ==
    /\ [](pc = "loop" => Len(argv) = i /\ i <= argc)
    /\ [](Returning =>
            \/ Len(argv) = i /\ i = argc
            \/ Len(argv) = i + 1 /\ argv[i + 1] = ")" /\ i < argc)
    /\ [](pc = "done" => i = argc /\ Len(argv) = argc /\ stack = <<>>)
    /\ [][/\ i' >= i
          /\ (pc = "loop" /\ i < argc) =>
                /\ Len(argv') > Len(argv)
                /\ pc' = "loop" => i' = Len(argv') /\ i' > i
                /\ Returning' =>
                    /\ argv' = Append(argv, ")")
                    /\ stack' = Pop
          /\ pc # "loop" => argv' = argv
          /\ (pc = "ret_paren" /\ pc' = "loop") =>
                i' = i + 1 /\ Len(stack') = Len(stack)]_vars

(* C40 as stated: the parse of every argument list ends with a filter    *)
(* returned to main() or with a fatal error, and the tokens are read     *)
(* once each.                                                            *)
C40_ParsingTerminates ==
    /\ TokensReadOnce
    /\ <>(pc \in {"done", "fatal"})

(* C40 amended: the parse of every argument list ends with a filter      *)
(* returned to main(), with a fatal error, or with the exit(0) of a      *)
(* -quit run on an entry; the tokens are read once each.                 *)
C40_ParsingTerminatesOrQuits ==
    /\ TokensReadOnce
    /\ <>(pc \in {"done", "fatal", "exit"})
    /\ [](pc = "exit" =>
            /\ calls # <<>>
            /\ calls[Len(calls)].action = "ACT_QUIT"
            /\ ~calls[Len(calls)].drained)

(* a group closed inside the right-hand side of -o, then the end of the  *)
(* arguments                                                             *)
C40_Witness ==
    /\ pc = "done"
    /\ argc >= backend_count + 5
    /\ retval.op = "and"
    /\ \E k \in 1..Len(Expr) : Expr[k] = ")"
    /\ \E k \in 1..Len(Expr) : Expr[k] = "-o"

============================================================================
